---- MODULE Spec2Model ----
(***************************************************************************)
(* Model of the self-gating web collection engine                          *)
(* (src/agents/web_collection.py, class WebCollectionAgent).               *)
(*                                                                         *)
(* Numbers that are floats in the source (reliability scores, averages,    *)
(* ratio thresholds) are integer hundredths here: 0.6 is 60.               *)
(* A search query is its position in the planner's templates: 1..10 are    *)
(* the baseline queries, 11..24 the slot-targeted ones.                    *)
(* Titles, contents, summaries, ids and timestamps play no part in the     *)
(* control flow and are left out of hits and documents.                    *)
(***************************************************************************)
EXTENDS Integers, Sequences, FiniteSets, TLC

(***************************************************************************)
(* Program constants (class attributes and literals of the source).        *)
(***************************************************************************)
DEFAULT_MIN_DOCS == 50
DEFAULT_MIN_PRIMARY == 2
DEFAULT_RECENT_WINDOW_DAYS == 180
DEFAULT_MIN_RECENT == 3
DEFAULT_AVG_REL_MIN == 60
DEFAULT_LOW_RATIO_MAX == 30
DEFAULT_DISTINCT_DOMAINS_MIN == 4
DEFAULT_CATEGORY_DIVERSITY_MIN == 2
DEFAULT_MAX_ATTEMPTS == 2
DOMAIN_CAP_PER_HOST == 15
ShallowMaxResults == 5
DeepMaxResults == 8
DeepFloor == 100
DeepPrefix == 5
UnknownAge == 9999

(***************************************************************************)
(* Bounds of the model.                                                    *)
(***************************************************************************)
MaxCalls == 2
MaxGateDocs == 2
MaxGateCount == 1
MaxPlanAttempt == 3
MaxPipeEntries == 4

(***************************************************************************)
(* Generic helpers.                                                        *)
(***************************************************************************)
Range(s) == {s[i] : i \in DOMAIN s}

Min2(a, b) == IF a < b THEN a ELSE b

Max2(a, b) == IF a > b THEN a ELSE b

\* sum of s[lo..hi], by halves
RECURSIVE SumRange(_, _, _)
SumRange(s, lo, hi) ==
    IF lo > hi THEN 0
    ELSE IF lo = hi THEN s[lo]
    ELSE SumRange(s, lo, (lo + hi) \div 2) + SumRange(s, ((lo + hi) \div 2) + 1, hi)

SumSeq(s) == SumRange(s, 1, Len(s))

\* concatenation of ss[lo..hi], by halves
RECURSIVE FlattenRange(_, _, _)
FlattenRange(ss, lo, hi) ==
    IF lo > hi THEN <<>>
    ELSE IF lo = hi THEN ss[lo]
    ELSE FlattenRange(ss, lo, (lo + hi) \div 2)
           \o FlattenRange(ss, ((lo + hi) \div 2) + 1, hi)

Flatten(ss) == FlattenRange(ss, 1, Len(ss))

CountIf(s, P(_)) == Cardinality({i \in DOMAIN s : P(s[i])})

Prefix(s, n) == SubSeq(s, 1, Min2(n, Len(s)))


(***************************************************************************)
(* URLs.  A URL is its host (kept lower-cased, with `up` telling that the  *)
(* original spelling had upper-case letters), its path and its query       *)
(* string; NoUrl is the empty string.                                      *)
(***************************************************************************)
NoUrl == [host |-> "", up |-> FALSE, path |-> 0, qs |-> 0]

Url(h, up, p, q) == [host |-> h, up |-> up, path |-> p, qs |-> q]

\* urlparse(url).netloc.lower()
NetlocLower(url) == url.host

\* _normalize_url: scheme://lower(netloc)path, query and fragment dropped
NormalizeUrl(url) == [host |-> url.host, path |-> url.path]

(***************************************************************************)
(* Dates as the classifier returns them: none, an unparseable text, a      *)
(* timezone-aware ISO text (parsed by fromisoformat, after which the       *)
(* subtraction from the naive utcnow() raises TypeError), or a parseable   *)
(* date that is `age` days old.  A timed date is a parseable date and time *)
(* whose time of day is later than the clock's: it is `age` whole days     *)
(* old, and the midnight of its day is `age` + 1 days old.                 *)
(***************************************************************************)
NoDate == [k |-> "none", age |-> 0]

GarbageDate == [k |-> "garbage", age |-> 0]

AwareDate == [k |-> "aware", age |-> 0]

DateAged(a) == [k |-> "ok", age |-> a]

TimedDate(a) == [k |-> "timed", age |-> a]

(***************************************************************************)
(* Answers of the classification capability for one hit.                   *)
(*   obj   : JSON object; a field may be "absent"                          *)
(*   text  : unparseable text                                              *)
(*   list  : parseable JSON that is not an object                          *)
(*   raise : the call itself fails                                         *)
(***************************************************************************)
ClsObj(st, cat, d) == [k |-> "obj", source_type |-> st, source_category |-> cat, date |-> d]

ClsText == [k |-> "text", source_type |-> "absent", source_category |-> "absent", date |-> NoDate]

ClsList == [k |-> "list", source_type |-> "absent", source_category |-> "absent", date |-> NoDate]

ClsRaise == [k |-> "raise", source_type |-> "absent", source_category |-> "absent", date |-> NoDate]

Hit(u, c) == [url |-> u, cls |-> c]

(***************************************************************************)
(* _build_queries.  The plan depends on the attempt number and on the      *)
(* missing_slots of the stored gate verdict only.                          *)
(***************************************************************************)
Slots == {"docs_count", "primary", "recent", "reliability", "diversity"}

\* order of the `if "<slot>" in missing` blocks of _build_queries
PlannerOrder == <<"primary", "recent", "docs_count", "reliability", "diversity">>

BaseQueries == <<1, 2, 3, 4, 5, 6, 7, 8, 9, 10>>

TargetedQueries(slot) ==
    CASE slot = "primary" -> <<11, 12, 13>>
      [] slot = "recent" -> <<14, 15>>
      [] slot = "docs_count" -> <<16, 17, 18>>
      [] slot = "reliability" -> <<19, 20, 21>>
      [] slot = "diversity" -> <<22, 23, 24>>

SlotOfQuery(q) ==
    CASE q <= 10 -> "base"
      [] q \in 11..13 -> "primary"
      [] q \in 14..15 -> "recent"
      [] q \in 16..18 -> "docs_count"
      [] q \in 19..21 -> "reliability"
      [] OTHER -> "diversity"

BuildQueriesIgnoreMissing(attempt, missing) == BaseQueries

BuildQueriesNoFirstAttemptCase(attempt, missing) ==
    IF missing = <<>> THEN BaseQueries
    ELSE BaseQueries \o
         Flatten([i \in 1..5 |->
                    IF PlannerOrder[i] \in Range(missing)
                    THEN TargetedQueries(PlannerOrder[i]) ELSE <<>>])

BuildQueries(attempt, missing) ==
    IF attempt = 1 THEN BaseQueries
    ELSE IF missing = <<>> THEN BaseQueries
    ELSE BaseQueries \o
         Flatten([i \in 1..5 |->
                    IF PlannerOrder[i] \in Range(missing)
                    THEN TargetedQueries(PlannerOrder[i]) ELSE <<>>])

(***************************************************************************)
(* The collaborators.  What the search capability answers to one call and  *)
(* what the classifier says of each hit is decided by the web the          *)
(* dispatch happens to see, drawn anew for every dispatch from Webs:       *)
(*   vol, deep : hits per shallow / deep call                              *)
(*   nhosts    : number of distinct hosts the hits are spread over         *)
(*   dup       : every query returns the same pages                        *)
(*   nourl     : the second hit of every answer carries no URL             *)
(*   fail      : none | all (every call raises) | odd (odd queries raise)  *)
(*               | first (query 1 raises)                                  *)
(*               | noniter (query 3 answers a non-iterable "results")      *)
(*   cls       : what the classifier answers                               *)
(***************************************************************************)
HostNames == <<"a.com", "b.com", "c.com", "d.com", "e.com">>

CategoryCycle == <<"company", "news", "blog", "academic">>

GoodDate(j) == IF j <= 2 THEN DateAged(10) ELSE IF j = 3 THEN NoDate ELSE DateAged(400)

GoodCls(j) ==
    ClsObj(IF j = 1 THEN "primary" ELSE "secondary",
           CategoryCycle[((j - 1) % 4) + 1], GoodDate(j))

Classify(profile, q, j) ==
    CASE profile = "good" -> GoodCls(j)
      [] profile = "strong" ->
           [GoodCls(j) EXCEPT !.source_type = IF j % 2 = 1 THEN "primary" ELSE "secondary"]
      [] profile = "secondary" ->
           ClsObj("secondary", IF j % 2 = 1 THEN "company" ELSE "news", DateAged(10))
      [] profile = "poor" -> ClsObj("secondary", "blog", GarbageDate)
      [] profile = "text" -> ClsText
      [] profile = "absent" -> ClsObj("absent", "absent", DateAged(181))
      [] profile = "noprimary" -> [GoodCls(j) EXCEPT !.source_type = "secondary"]
      [] profile = "stale" -> [GoodCls(j) EXCEPT !.date = DateAged(400)]
      [] profile = "future" -> [GoodCls(j) EXCEPT !.date = DateAged(0 - 3)]
      [] profile = "aware" ->
           IF q = 3 /\ j = 1 THEN [GoodCls(j) EXCEPT !.date = AwareDate] ELSE GoodCls(j)
      [] profile = "timed" ->
           [GoodCls(j) EXCEPT !.date = TimedDate(DEFAULT_RECENT_WINDOW_DAYS)]
      [] profile = "broken" ->
           IF j = 2 THEN ClsList ELSE IF j = 3 THEN ClsRaise ELSE GoodCls(j)

Web(vol, deep, nhosts, dup, nourl, fail, cls) ==
    [vol |-> vol, deep |-> deep, nhosts |-> nhosts, dup |-> dup,
     nourl |-> nourl, fail |-> fail, cls |-> cls]

Webs ==
    { Web(0, 0, 1, FALSE, FALSE, "none", "good"),
      Web(ShallowMaxResults, DeepMaxResults, 5, FALSE, FALSE, "all", "good"),
      Web(1, 1, 3, FALSE, FALSE, "odd", "good"),
      Web(ShallowMaxResults, DeepMaxResults, 5, FALSE, FALSE, "first", "good"),
      Web(1, 1, 2, FALSE, FALSE, "noniter", "good"),
      Web(ShallowMaxResults, DeepMaxResults, 5, FALSE, FALSE, "none", "good"),
      Web(ShallowMaxResults, DeepMaxResults, 5, FALSE, FALSE, "none", "strong"),
      Web(ShallowMaxResults, DeepMaxResults, 5, FALSE, FALSE, "none", "secondary"),
      Web(ShallowMaxResults, DeepMaxResults, 5, FALSE, FALSE, "none", "noprimary"),
      Web(ShallowMaxResults, DeepMaxResults, 5, FALSE, FALSE, "none", "stale"),
      Web(ShallowMaxResults, DeepMaxResults, 5, FALSE, FALSE, "none", "poor"),
      Web(ShallowMaxResults, DeepMaxResults, 5, FALSE, FALSE, "none", "text"),
      Web(ShallowMaxResults, DeepMaxResults, 5, FALSE, FALSE, "none", "aware"),
      Web(ShallowMaxResults, DeepMaxResults, 3, FALSE, FALSE, "none", "good"),
      Web(ShallowMaxResults, DeepMaxResults, 1, FALSE, FALSE, "none", "poor"),
      Web(ShallowMaxResults, DeepMaxResults, 5, TRUE, TRUE, "none", "good"),
      Web(3, 3, 5, FALSE, TRUE, "none", "broken"),
      Web(1, 1, 2, FALSE, FALSE, "none", "aware"),
      Web(2, 2, 4, FALSE, FALSE, "none", "future"),
      Web(2, 2, 4, FALSE, FALSE, "none", "timed"),
      Web(1, 1, 1, FALSE, FALSE, "none", "absent") }

HitAt(w, q, j, depth) ==
    Hit(IF w.nourl /\ j = 2 THEN NoUrl
        ELSE Url(HostNames[((q + j) % w.nhosts) + 1],
                 depth = "advanced",
                 IF w.dup THEN j ELSE (q - 1) * DeepMaxResults + j,
                 IF depth = "advanced" THEN 1 ELSE 0),
        Classify(w.cls, q, j))

\* self.tavily.search(...): the answer of the search capability to one call
TavilySearch(w, q, depth) ==
    IF w.fail = "all" \/ (w.fail = "odd" /\ q % 2 = 1) \/ (w.fail = "first" /\ q = 1)
    THEN [k |-> "raise", hits |-> <<>>]
    ELSE IF w.fail = "noniter" /\ q = 3
    THEN [k |-> "noniter", hits |-> <<>>]
    ELSE [k |-> "ok",
          hits |-> [j \in 1..(IF depth = "basic" THEN w.vol ELSE w.deep) |->
                      HitAt(w, q, j, depth)]]

(***************************************************************************)
(* _run_tavily_queries.                                                    *)
(***************************************************************************)
\* _search_one: an exception of the call is caught and gives no results
SearchOnePropagating(w, q, depth) ==
    LET resp == TavilySearch(w, q, depth)
    IN  IF resp.k = "raise" THEN [k |-> "noniter", hits |-> <<>>] ELSE resp

SearchOne(w, q, depth) ==
    LET resp == TavilySearch(w, q, depth)
    IN  IF resp.k = "raise" THEN [k |-> "ok", hits |-> <<>>] ELSE resp

\* for q in qs: all_results.extend(_search_one(q, ...)).  Extending by a
\* non-iterable raises TypeError outside _search_one's try: the pass stops
\* at the first such answer.
SearchPass(w, qs, depth) ==
    LET answers == [i \in DOMAIN qs |-> SearchOne(w, qs[i], depth)]
        bad == {i \in DOMAIN qs : answers[i].k = "noniter"}
        last == IF bad = {} THEN Len(qs)
                ELSE CHOOSE i \in bad : \A k \in bad : i <= k
    IN  [raised |-> bad # {},
         calls |-> [i \in 1..last |-> [query |-> qs[i], depth |-> depth]],
         results |-> Flatten([i \in 1..last |->
                                IF answers[i].k = "noniter" THEN <<>>
                                ELSE answers[i].hits])]

\* one turn of the cap loop: r is kept while its host has fewer than cap hits
CapStepInclusive(acc, r, cap) ==
    LET host == NetlocLower(r.url)
        cnt == IF host \in DOMAIN acc.per_host THEN acc.per_host[host] ELSE 0
    IN  IF cnt <= cap
        THEN [capped |-> Append(acc.capped, r),
              per_host |-> [h \in DOMAIN acc.per_host \cup {host} |->
                              IF h = host THEN cnt + 1 ELSE acc.per_host[h]]]
        ELSE acc

CapStep(acc, r, cap) ==
    LET host == NetlocLower(r.url)
        cnt == IF host \in DOMAIN acc.per_host THEN acc.per_host[host] ELSE 0
    IN  IF cnt < cap
        THEN [capped |-> Append(acc.capped, r),
              per_host |-> [h \in DOMAIN acc.per_host \cup {host} |->
                              IF h = host THEN cnt + 1 ELSE acc.per_host[h]]]
        ELSE acc

\* the loop over rs[lo..hi] in order, evaluated by halves (the test on
\* `left` only makes TLC finish the first half before it starts the second)
RECURSIVE CapRange(_, _, _, _, _)
CapRange(rs, lo, hi, acc, cap) ==
    IF lo > hi THEN acc
    ELSE IF lo = hi THEN CapStep(acc, rs[lo], cap)
    ELSE LET left == CapRange(rs, lo, (lo + hi) \div 2, acc, cap)
         IN  IF Len(left.capped) >= 0
             THEN CapRange(rs, ((lo + hi) \div 2) + 1, hi, left, cap)
             ELSE left

DomainCap(all_results) ==
    CapRange(all_results, 1, Len(all_results),
             [capped |-> <<>>, per_host |-> <<>>], DOMAIN_CAP_PER_HOST).capped

\* line 286: queries[:min(5, len(queries))], the queries of the deep pass
DeepQueriesAll(plan) == plan

DeepQueries(plan) == Prefix(plan, Min2(DeepPrefix, Len(plan)))

RunTavilyQueries(w, plan) ==
    LET shallow == SearchPass(w, plan, "basic")
        deep == IF ~shallow.raised /\ Len(shallow.results) < DeepFloor
                THEN SearchPass(w, DeepQueries(plan), "advanced")
                ELSE [raised |-> FALSE, calls |-> <<>>, results |-> <<>>]
        all_results == shallow.results \o deep.results
        raised == shallow.raised \/ deep.raised
    IN  [raised |-> raised,
         calls |-> shallow.calls \o deep.calls,
         all_results |-> all_results,
         capped |-> IF raised THEN <<>> ELSE DomainCap(all_results)]

(***************************************************************************)
(* _analyze_documents and _parse_llm_response.  Every hit of the capped    *)
(* list is classified; a hit whose classification raises, or whose parsed  *)
(* answer has no .get (a JSON list), is skipped by the per-hit except.     *)
(***************************************************************************)
DefaultAnalysis == ClsObj("secondary", "news", NoDate)

ParseLlmResponse(resp) == IF resp.k = "text" THEN DefaultAnalysis ELSE resp

\* analysis.get(key, default)
GetOr(v, default) == IF v = "absent" THEN default ELSE v

MakeDoc(hit, analysis) ==
    [url |-> hit.url,
     source_type |-> GetOr(analysis.source_type, "secondary"),
     source_category |-> GetOr(analysis.source_category, "news"),
     date |-> analysis.date,
     age_days |-> 0,
     is_recent |-> FALSE,
     reliability |-> "medium",
     reliability_score |-> 50,
     evidence_tier |-> "tier2"]

\* lines 325-337: the hits classify_chain.invoke is called for, in order:
\* every hit of the capped list, whatever its URL
ClassifyCalls(results) == results

\* the hits whose turn of the loop ends in the except clause
AnalysisFails(result) == result.cls.k \in {"raise", "list"}

AnalyzeDocuments(results) ==
    LET kept == SelectSeq(results, LAMBDA r : ~AnalysisFails(r))
    IN  [i \in DOMAIN kept |-> MakeDoc(kept[i], ParseLlmResponse(kept[i].cls))]

(***************************************************************************)
(* Step 4 of execute: deduplicate against the run's seen_urls and merge.   *)
(***************************************************************************)
\* one turn of the loop of step 4
DedupStep(acc, d) ==
    IF d.url = NoUrl THEN acc
    ELSE IF NormalizeUrl(d.url) \in acc.seen_urls THEN acc
    ELSE [new_docs |-> Append(acc.new_docs, d),
          seen_urls |-> acc.seen_urls \cup {NormalizeUrl(d.url)}]

\* the loop over docs[lo..hi] in order, evaluated by halves (the test on
\* `left` only makes TLC finish the first half before it starts the second)
RECURSIVE DedupRange(_, _, _, _)
DedupRange(docs, lo, hi, acc) ==
    IF lo > hi THEN acc
    ELSE IF lo = hi THEN DedupStep(acc, docs[lo])
    ELSE LET left == DedupRange(docs, lo, (lo + hi) \div 2, acc)
         IN  IF Len(left.new_docs) >= 0
             THEN DedupRange(docs, ((lo + hi) \div 2) + 1, hi, left)
             ELSE left

DedupWithinAttemptOnly(analyzed, seen) ==
    DedupRange(analyzed, 1, Len(analyzed), [new_docs |-> <<>>, seen_urls |-> {}])

Dedup(analyzed, seen) ==
    DedupRange(analyzed, 1, Len(analyzed), [new_docs |-> <<>>, seen_urls |-> seen])

(***************************************************************************)
(* _assess_reliability, _parse_date and _calculate_reliability.            *)
(***************************************************************************)
\* _parse_date returns a datetime for a parseable text and None otherwise
ParseableAnyText(date) == date.k # "none"

Parseable(date) == date.k \in {"ok", "timed", "aware"}

\* doc_date.date().isoformat(): the time of day is dropped
IsoDate(date) == IF date.k = "timed" THEN DateAged(date.age + 1) ELSE date

\* (now - doc_date) raises TypeError for a timezone-aware doc_date
SubtractionRaises(date) == date.k = "aware"

CategoryBonusHeavyBlog(cat) ==
    CASE cat = "company" -> 10
      [] cat = "news" -> 0
      [] cat = "blog" -> 0 - 20
      [] OTHER -> 0

CategoryBonus(cat) ==
    CASE cat = "company" -> 10
      [] cat = "news" -> 0
      [] cat = "blog" -> 0 - 10
      [] OTHER -> 0

ReliabilityScore(doc) ==
    Max2(0, Min2(100, 50 + (IF doc.source_type = "primary" THEN 20 ELSE 0)
                         + CategoryBonus(doc.source_category)
                         + (IF doc.is_recent THEN 10 ELSE 0)))

CalculateReliabilityStrictBounds(doc) ==
    LET score == ReliabilityScore(doc)
    IN  [reliability |-> IF score > 70 THEN "high"
                         ELSE IF score > 40 THEN "medium" ELSE "low",
         reliability_score |-> score,
         evidence_tier |-> IF score > 70 THEN "tier1"
                           ELSE IF score > 40 THEN "tier2" ELSE "tier3"]

CalculateReliability(doc) ==
    LET score == ReliabilityScore(doc)
    IN  [reliability |-> IF score >= 70 THEN "high"
                         ELSE IF score >= 40 THEN "medium" ELSE "low",
         reliability_score |-> score,
         evidence_tier |-> IF score >= 70 THEN "tier1"
                           ELSE IF score >= 40 THEN "tier2" ELSE "tier3"]

AssessOne(doc) ==
    LET dated == IF Parseable(doc.date)
                 THEN [doc EXCEPT !.age_days = Max2(0, doc.date.age),
                                  !.is_recent = doc.date.age <= DEFAULT_RECENT_WINDOW_DAYS,
                                  !.date = IsoDate(doc.date)]
                 ELSE [doc EXCEPT !.age_days = UnknownAge,
                                  !.is_recent = FALSE,
                                  !.date = NoDate]
        rel == CalculateReliability(dated)
    IN  [dated EXCEPT !.reliability = rel.reliability,
                      !.reliability_score = rel.reliability_score,
                      !.evidence_tier = rel.evidence_tier]

\* The loop mutates the documents in place, in order; the first document
\* whose date makes the subtraction raise stops it, leaving that document
\* and the following ones as they were.
AssessReliability(documents) ==
    LET bad == {i \in DOMAIN documents : SubtractionRaises(documents[i].date)}
        first == IF bad = {} THEN Len(documents) + 1
                 ELSE CHOOSE i \in bad : \A k \in bad : i <= k
    IN  [raised |-> bad # {},
         documents |-> [i \in DOMAIN documents |->
                          IF i < first THEN AssessOne(documents[i]) ELSE documents[i]]]

(***************************************************************************)
(* _calculate_statistics.  round(avg, 2) of the float mean: an exact tie   *)
(* between two hundredths goes the way the float representation falls,     *)
(* which `tie` stands for.                                                 *)
(***************************************************************************)
RoundedMean(sum, n, tie) ==
    LET lo == sum \div n
        rem == sum % n
    IN  IF 2 * rem < n THEN lo
        ELSE IF 2 * rem > n THEN lo + 1
        ELSE IF tie = "up" THEN lo + 1 ELSE lo

EmptyStats ==
    [sources_breakdown |-> <<>>,
     primary_sources_count |-> 0,
     secondary_sources_count |-> 0,
     newest_date |-> NoDate,
     oldest_date |-> NoDate,
     recent_documents_count |-> 0,
     high_reliability_count |-> 0,
     medium_reliability_count |-> 0,
     low_reliability_count |-> 0,
     average_reliability |-> 0]

\* sources_breakdown is the list of (category, count) pairs of the dict
Categories == <<"academic", "blog", "company", "news">>

Breakdown(documents) ==
    LET present == SelectSeq(Categories,
                     LAMBDA c : \E i \in DOMAIN documents : documents[i].source_category = c)
    IN  [k \in DOMAIN present |->
           [cat |-> present[k],
            n |-> Cardinality({i \in DOMAIN documents :
                                 documents[i].source_category = present[k]})]]

CalculateStatistics(documents, tie) ==
    IF documents = <<>> THEN EmptyStats
    ELSE LET dated == {i \in DOMAIN documents : documents[i].date.k # "none"}
             ages == {documents[i].date.age : i \in dated}
         IN  [sources_breakdown |-> Breakdown(documents),
              primary_sources_count |->
                  CountIf(documents, LAMBDA d : d.source_type = "primary"),
              secondary_sources_count |->
                  CountIf(documents, LAMBDA d : d.source_type # "primary"),
              newest_date |-> IF dated = {} THEN NoDate
                              ELSE DateAged(CHOOSE a \in ages : \A b \in ages : a <= b),
              oldest_date |-> IF dated = {} THEN NoDate
                              ELSE DateAged(CHOOSE a \in ages : \A b \in ages : a >= b),
              recent_documents_count |-> CountIf(documents, LAMBDA d : d.is_recent),
              high_reliability_count |->
                  CountIf(documents, LAMBDA d : d.reliability = "high"),
              medium_reliability_count |->
                  CountIf(documents, LAMBDA d : d.reliability = "medium"),
              low_reliability_count |->
                  CountIf(documents, LAMBDA d : d.reliability \notin {"high", "medium"}),
              average_reliability |->
                  RoundedMean(SumSeq([i \in DOMAIN documents |->
                                        documents[i].reliability_score]),
                              Len(documents), tie)]

(***************************************************************************)
(* _evaluate_gate and _distinct_domains.                                   *)
(***************************************************************************)
\* sorted(set(missing)): alphabetical order of the slot names
SortedSlots == <<"diversity", "docs_count", "primary", "recent", "reliability">>

\* set(missing), listed in the order the set iterates: the order depends on
\* the string hashes of the interpreter, which differ from one process to
\* the next
HashOrders ==
    { <<"diversity", "docs_count", "primary", "recent", "reliability">>,
      <<"reliability", "recent", "primary", "docs_count", "diversity">>,
      <<"primary", "reliability", "docs_count", "diversity", "recent">> }

SetOf(missing, order) == SelectSeq(order, LAMBDA s : s \in Range(missing))

\* sorted(...) of a list of distinct slot names
SortedUnordered(slots) == slots

Sorted(slots) == SelectSeq(SortedSlots, LAMBDA s : s \in Range(slots))

DistinctDomains(documents) ==
    {NetlocLower(documents[i].url) : i \in DOMAIN documents} \ {""}

CategoryDiv(stats) ==
    Cardinality({k \in DOMAIN stats.sources_breakdown : stats.sources_breakdown[k].n > 0})

\* the seven conditions of _evaluate_gate, TRUE when the check fails
GateFailuresEmptyRatioZero(documents, stats, policy) ==
    LET total == Len(documents)
    IN  << total < policy.min_docs,
           stats.primary_sources_count < policy.min_primary,
           stats.recent_documents_count < policy.min_recent,
           stats.average_reliability < policy.avg_rel_min,
           IF total > 0
           THEN stats.low_reliability_count * 100 > policy.low_ratio_max * total
           ELSE 0 > policy.low_ratio_max,
           Cardinality({NetlocLower(documents[i].url) : i \in DOMAIN documents} \ {""})
             < policy.distinct_domains_min,
           Cardinality({k \in DOMAIN stats.sources_breakdown :
                          stats.sources_breakdown[k].n > 0})
             < policy.category_diversity_min >>

GateFailuresStrictDocs(documents, stats, policy) ==
    LET total == Len(documents)
    IN  << total <= policy.min_docs,
           stats.primary_sources_count < policy.min_primary,
           stats.recent_documents_count < policy.min_recent,
           stats.average_reliability < policy.avg_rel_min,
           IF total > 0
           THEN stats.low_reliability_count * 100 > policy.low_ratio_max * total
           ELSE 100 > policy.low_ratio_max,
           Cardinality({NetlocLower(documents[i].url) : i \in DOMAIN documents} \ {""})
             < policy.distinct_domains_min,
           Cardinality({k \in DOMAIN stats.sources_breakdown :
                          stats.sources_breakdown[k].n > 0})
             < policy.category_diversity_min >>

GateFailures(documents, stats, policy) ==
    LET total == Len(documents)
    IN  << total < policy.min_docs,
           stats.primary_sources_count < policy.min_primary,
           stats.recent_documents_count < policy.min_recent,
           stats.average_reliability < policy.avg_rel_min,
           IF total > 0
           THEN stats.low_reliability_count * 100 > policy.low_ratio_max * total
           ELSE 100 > policy.low_ratio_max,
           Cardinality(DistinctDomains(documents)) < policy.distinct_domains_min,
           CategoryDiv(stats) < policy.category_diversity_min >>

PredicateReason == <<"doc_count_short", "primary_short", "recent_short",
                     "avg_reliability_low", "low_ratio_high",
                     "domain_diversity_short", "category_diversity_short">>

\* missing.append(slot), guarded by `not in missing` where the source guards it
AppendSlot(missing, failed, slot, guarded) ==
    IF failed /\ ~(guarded /\ slot \in Range(missing)) THEN Append(missing, slot)
    ELSE missing

EvaluateGate(documents, stats, policy, order) ==
    LET f == GateFailures(documents, stats, policy)
        m1 == AppendSlot(<<>>, f[1], "docs_count", FALSE)
        m2 == AppendSlot(m1, f[2], "primary", FALSE)
        m3 == AppendSlot(m2, f[3], "recent", FALSE)
        m4 == AppendSlot(m3, f[4], "reliability", FALSE)
        m5 == AppendSlot(m4, f[5], "reliability", TRUE)
        m6 == AppendSlot(m5, f[6], "diversity", FALSE)
        m7 == AppendSlot(m6, f[7], "diversity", TRUE)
    IN  [passed |-> Len(m7) = 0,
         missing_slots |-> Sorted(SetOf(m7, order)),
         reasons |-> SelectSeq(PredicateReason,
                        LAMBDA r : \E k \in 1..7 : PredicateReason[k] = r /\ f[k])]

(***************************************************************************)
(* The state of one caller of execute.                                     *)
(*   pc              position inside execute ("idle" before the first      *)
(*                   call, "returned" after a return)                      *)
(*   errors          state["errors"]: is_list tells whether it is a list   *)
(*   wc              state["web_collection"]; wc.documents names the list  *)
(*                   object it refers to: "fresh" is the empty list        *)
(*                   literal of the initialisation, "cumulative" the list  *)
(*                   object of the local cumulative_docs                   *)
(*   cumulative_docs, seen_urls, attempt_no, queries, tavily_results,      *)
(*   analyzed_docs, new_docs     locals of execute                         *)
(*   exc             the exception in flight                               *)
(*   calls           number of calls of execute made on this state         *)
(*   errors_before   len(state["errors"]) when the current call started    *)
(*   search_calls    the calls the last dispatch made to the search        *)
(*                   capability, in order                                  *)
(*   web             what the search capability and the classifier answer  *)
(*                   in the last dispatch                                  *)
(*   all_results     the merged raw hits of the last dispatch (the local   *)
(*                   all_results of _run_tavily_queries, before the cap)   *)
(*   gate_in, gate_out   argument and result of a stand-alone call of      *)
(*                   _evaluate_gate                                        *)
(*   pipe            the keys of the pipeline state that steer the         *)
(*                   re-collection loop of the graph                       *)
(***************************************************************************)
VARIABLES pc, errors, wc, cumulative_docs, seen_urls, attempt_no, queries,
          tavily_results, analyzed_docs, new_docs, exc, calls, errors_before,
          search_calls, web, all_results, gate_in, gate_out, pipe

vars == <<pc, errors, wc, cumulative_docs, seen_urls, attempt_no, queries,
          tavily_results, analyzed_docs, new_docs, exc, calls, errors_before,
          search_calls, web, all_results, gate_in, gate_out, pipe>>

gateVars == <<gate_in, gate_out>>

ThresholdProfile ==
    [min_docs |-> DEFAULT_MIN_DOCS,
     min_primary |-> DEFAULT_MIN_PRIMARY,
     recent_window_days |-> DEFAULT_RECENT_WINDOW_DAYS,
     min_recent |-> DEFAULT_MIN_RECENT,
     avg_rel_min |-> DEFAULT_AVG_REL_MIN,
     low_ratio_max |-> DEFAULT_LOW_RATIO_MAX,
     distinct_domains_min |-> DEFAULT_DISTINCT_DOMAINS_MIN,
     category_diversity_min |-> DEFAULT_CATEGORY_DIVERSITY_MIN,
     max_attempts |-> DEFAULT_MAX_ATTEMPTS]

NoGate == [passed |-> FALSE, missing_slots |-> <<>>, reasons |-> <<>>]

\* the dict literal assigned to state["web_collection"] at the start of execute
InitialWCKeepingAttempts ==
    [status |-> "insufficient",
     documents |-> "fresh",
     count |-> 0,
     sources |-> {},
     stats |-> EmptyStats,
     gate |-> NoGate,
     attempts |-> [current |-> 1, max |-> ThresholdProfile.max_attempts],
     decision_log |-> <<>>,
     error |-> "none"]

InitialWC ==
    [status |-> "insufficient",
     documents |-> "fresh",
     count |-> 0,
     sources |-> {},
     stats |-> EmptyStats,
     gate |-> NoGate,
     attempts |-> [current |-> 0, max |-> ThresholdProfile.max_attempts],
     decision_log |-> <<>>,
     error |-> "none"]

\* no web_collection entry yet
AbsentWC == [InitialWC EXCEPT !.status = "absent"]

\* state["web_collection"]["documents"], read through the reference
WcDocuments == IF wc.documents = "cumulative" THEN cumulative_docs ELSE <<>>

PriorError ==
    [stage |-> "criteria_generation", error |-> "earlier", recovered |-> TRUE,
     impact_on_reliability |-> "low"]

\* before the first dispatch of a call
NoWeb == Web(0, 0, 1, FALSE, FALSE, "none", "none")

NoGateCall == [documents |-> <<>>, stats |-> EmptyStats, policy |-> ThresholdProfile]

\* create_initial_state: is_data_sufficient False, retry_collection 0, an
\* empty ethics_evaluation_criteria and no specialized document
InitialPipe ==
    [is_data_sufficient |-> FALSE, retry_collection |-> 0, criteria |-> "empty",
     spec_docs |-> 0]

Init ==
    /\ pc = "idle"
    /\ errors \in {[is_list |-> FALSE, items |-> <<>>],
                   [is_list |-> TRUE, items |-> <<>>],
                   [is_list |-> TRUE, items |-> <<PriorError>>]}
    /\ wc = AbsentWC
    /\ cumulative_docs = <<>>
    /\ seen_urls = {}
    /\ attempt_no = 0
    /\ queries = <<>>
    /\ tavily_results = <<>>
    /\ analyzed_docs = <<>>
    /\ new_docs = <<>>
    /\ exc = "none"
    /\ calls = 0
    /\ errors_before = 0
    /\ search_calls = <<>>
    /\ web = NoWeb
    /\ all_results = <<>>
    /\ gate_in = NoGateCall
    /\ gate_out = NoGate
    /\ pipe = InitialPipe

(***************************************************************************)
(* execute, step by step.                                                  *)
(***************************************************************************)
\* the locals other than the list object that the result may refer to
DropLocals ==
    /\ attempt_no' = 0
    /\ queries' = <<>>
    /\ tavily_results' = <<>>
    /\ analyzed_docs' = <<>>
    /\ new_docs' = <<>>

\* lines 50-99: errors made a list, web_collection replaced, locals created
Start ==
    /\ pc \in {"idle", "returned"}
    /\ calls < MaxCalls
    /\ calls' = calls + 1
    /\ errors' = IF errors.is_list THEN errors ELSE [is_list |-> TRUE, items |-> <<>>]
    /\ errors_before' = IF errors.is_list THEN Len(errors.items) ELSE 0
    /\ wc' = InitialWC
    /\ cumulative_docs' = <<>>
    /\ seen_urls' = {}
    /\ exc' = "none"
    /\ search_calls' = <<>>
    /\ web' = NoWeb
    /\ all_results' = <<>>
    /\ DropLocals
    /\ pc' = "loop"
    /\ UNCHANGED gateVars
    /\ UNCHANGED pipe

\* line 101: the condition of the while loop
LoopTest(current, max) == current < max

\* line 102: attempts.current += 1
NextAttemptStuck(current) == current

NextAttempt(current) == current + 1

\* lines 101-107: the loop test, the attempt counter and the query plan
LoopHead ==
    /\ pc = "loop"
    /\ IF LoopTest(wc.attempts.current, wc.attempts.max)
       THEN /\ wc' = [wc EXCEPT !.attempts.current = NextAttempt(@)]
            /\ attempt_no' = NextAttempt(wc.attempts.current)
            /\ queries' = BuildQueries(NextAttempt(wc.attempts.current),
                                       wc.gate.missing_slots)
            /\ pc' = "search"
            /\ UNCHANGED <<tavily_results, analyzed_docs, new_docs>>
       ELSE /\ pc' = "returned"
            /\ DropLocals
            /\ UNCHANGED wc
    /\ UNCHANGED <<errors, cumulative_docs, seen_urls, exc, calls, errors_before,
                   search_calls, web, all_results, gate_in, gate_out>>
    /\ UNCHANGED pipe

\* line 109: one dispatch, against whatever the web answers
Search ==
    /\ pc = "search"
    /\ \E w \in Webs :
         \E r \in {RunTavilyQueries(w, queries)} :
             /\ search_calls' = r.calls
             /\ web' = w
             /\ all_results' = r.all_results
             /\ IF r.raised
                THEN /\ exc' = "not_iterable"
                     /\ pc' = "except"
                     /\ UNCHANGED tavily_results
                ELSE /\ tavily_results' = r.capped
                     /\ pc' = "analyze"
                     /\ UNCHANGED exc
    /\ UNCHANGED <<errors, wc, cumulative_docs, seen_urls, attempt_no, queries,
                   analyzed_docs, new_docs, calls, errors_before, gate_in, gate_out>>
    /\ UNCHANGED pipe

\* line 111
Analyze ==
    /\ pc = "analyze"
    /\ analyzed_docs' = AnalyzeDocuments(tavily_results)
    /\ pc' = "merge"
    /\ UNCHANGED <<errors, wc, cumulative_docs, seen_urls, attempt_no, queries,
                   tavily_results, new_docs, exc, calls, errors_before,
                   search_calls, web, all_results, gate_in, gate_out>>
    /\ UNCHANGED pipe

\* line 125: cumulative_docs.extend(new_docs)
ExtendReplacing(cumulative, new) == new

Extend(cumulative, new) == cumulative \o new

\* lines 113-125: the list object of cumulative_docs grows in place
Merge ==
    /\ pc = "merge"
    /\ \E r \in {Dedup(analyzed_docs, seen_urls)} :
           /\ new_docs' = r.new_docs
           /\ seen_urls' = r.seen_urls
           /\ cumulative_docs' = Extend(cumulative_docs, r.new_docs)
    /\ pc' = "assess"
    /\ UNCHANGED <<errors, wc, attempt_no, queries, tavily_results, analyzed_docs,
                   exc, calls, errors_before, search_calls, web,
                   all_results, gate_in, gate_out>>
    /\ UNCHANGED pipe

\* new_docs holds the dicts that are the last len(new_docs) items of the
\* cumulative list: what the scoring writes into them shows through it
NewDocsOf(documents, new) ==
    SubSeq(documents, Len(documents) - Len(new) + 1, Len(documents))

\* line 128: the documents are re-scored in place
Assess ==
    /\ pc = "assess"
    /\ \E r \in {AssessReliability(cumulative_docs)} :
           /\ cumulative_docs' = r.documents
           /\ new_docs' = NewDocsOf(r.documents, new_docs)
           /\ IF r.raised
              THEN exc' = "naive_aware" /\ pc' = "except"
              ELSE exc' = exc /\ pc' = "gate"
    /\ UNCHANGED <<errors, wc, seen_urls, attempt_no, queries, tavily_results,
                   analyzed_docs, calls, errors_before, search_calls,
                   web, all_results,
                   gate_in, gate_out>>
    /\ UNCHANGED pipe

\* line 131: the list handed to _calculate_statistics
StatsInputNewDocs(cumulative, new) == new

StatsInput(cumulative, new) == cumulative

\* line 151: the status written with the verdict
StatusOfVerdict(gate_passed) == IF gate_passed THEN "completed" ELSE "insufficient"

\* lines 131-165: statistics, gate, state update and decision log
GateAndUpdate ==
    /\ pc = "gate"
    /\ \E tie \in {"down", "up"}, order \in HashOrders :
         \E stats \in {CalculateStatistics(StatsInput(cumulative_docs, new_docs), tie)} :
         \E verdict \in {EvaluateGate(cumulative_docs, stats, ThresholdProfile, order)} :
             wc' = [wc EXCEPT
                      !.documents = "cumulative",
                      !.count = Len(cumulative_docs),
                      !.sources = {cumulative_docs[i].source_category :
                                     i \in DOMAIN cumulative_docs},
                      !.stats = stats,
                      !.gate = verdict,
                      !.status = StatusOfVerdict(verdict.passed),
                      !.error = "none",
                      !.decision_log = Append(@,
                          [attempt |-> attempt_no,
                           queries |-> queries,
                           new_docs |-> Len(new_docs),
                           total_docs |-> Len(cumulative_docs),
                           gate_passed |-> verdict.passed,
                           missing_slots |-> verdict.missing_slots,
                           reasons |-> verdict.reasons])]
    /\ pc' = "exit"
    /\ UNCHANGED <<errors, cumulative_docs, seen_urls, attempt_no, queries,
                   tavily_results, analyzed_docs, new_docs, exc, calls, errors_before,
                   search_calls, web, all_results, gate_in, gate_out>>
    /\ UNCHANGED pipe

\* lines 168-176: what the end of an attempt does
ExitDecisionNoBreakOnPass(gate_passed, attempt, max) ==
    IF attempt >= max THEN (IF gate_passed THEN "pass" ELSE "exhausted") ELSE "retry"

ExitDecisionRetryForever(gate_passed, attempt, max) ==
    IF gate_passed THEN "pass" ELSE "retry"

ExitDecisionNoPartial(gate_passed, attempt, max) ==
    IF gate_passed \/ attempt >= max THEN "pass" ELSE "retry"

ExitDecision(gate_passed, attempt, max) ==
    IF gate_passed THEN "pass"
    ELSE IF attempt >= max THEN "exhausted"
    ELSE "retry"

ExitOrRetry ==
    /\ pc = "exit"
    /\ LET d == ExitDecision(wc.gate.passed, attempt_no, wc.attempts.max)
       IN  /\ wc' = IF d = "exhausted" THEN [wc EXCEPT !.status = "partial"] ELSE wc
           /\ IF d = "retry"
              THEN /\ pc' = "loop"
                   /\ UNCHANGED <<attempt_no, queries, tavily_results, analyzed_docs,
                                  new_docs>>
              ELSE /\ pc' = "returned"
                   /\ DropLocals
    /\ UNCHANGED <<errors, cumulative_docs, seen_urls, exc, calls, errors_before,
                   search_calls, web, all_results, gate_in, gate_out>>
    /\ UNCHANGED pipe

\* lines 180-193: the handler
ErrorEntry(e) ==
    [stage |-> "web_collection", error |-> e, recovered |-> FALSE,
     impact_on_reliability |-> "high"]

HandlerRetries(e) == "loop"

HandlerNext(e) == "returned"

Except ==
    /\ pc = "except"
    /\ wc' = [wc EXCEPT !.status = "degraded", !.error = exc]
    /\ errors' = [errors EXCEPT !.items = Append(@, ErrorEntry(exc))]
    /\ pc' = HandlerNext(exc)
    /\ exc' = "none"
    /\ DropLocals
    /\ UNCHANGED <<cumulative_docs, seen_urls, calls, errors_before, search_calls,
                   web, all_results,
                   gate_in, gate_out>>
    /\ UNCHANGED pipe

Next == Start \/ LoopHead \/ Search \/ Analyze \/ Merge \/ Assess \/ GateAndUpdate
          \/ ExitOrRetry \/ Except

Spec == Init /\ [][Next]_vars

(***************************************************************************)
(* _evaluate_gate called on its own, on arbitrary small arguments.         *)
(***************************************************************************)
GateDoc(u) == MakeDoc(Hit(u, ClsText), DefaultAnalysis)

GateDocPool ==
    {GateDoc(Url("a.com", FALSE, 1, 0)), GateDoc(Url("b.com", TRUE, 1, 0)), GateDoc(NoUrl)}

GateDocuments == UNION {[1..n -> GateDocPool] : n \in 0..MaxGateDocs}

GateBreakdowns ==
    { <<>>,
      <<[cat |-> "news", n |-> 1]>>,
      <<[cat |-> "news", n |-> 1], [cat |-> "blog", n |-> 0]>>,
      <<[cat |-> "news", n |-> 1], [cat |-> "blog", n |-> 1]>> }

GateStats ==
    {[EmptyStats EXCEPT !.sources_breakdown = b,
                        !.primary_sources_count = p,
                        !.recent_documents_count = r,
                        !.low_reliability_count = l,
                        !.average_reliability = a] :
       b \in GateBreakdowns, p \in 0..MaxGateCount, r \in 0..MaxGateCount,
       l \in 0..MaxGateCount,
       a \in {DEFAULT_AVG_REL_MIN - 1, DEFAULT_AVG_REL_MIN}}

Policy(docs, primary, recent, avg, low, domains, cats) ==
    [ThresholdProfile EXCEPT !.min_docs = docs, !.min_primary = primary,
                             !.min_recent = recent, !.avg_rel_min = avg,
                             !.low_ratio_max = low, !.distinct_domains_min = domains,
                             !.category_diversity_min = cats]

GatePolicies ==
    { ThresholdProfile,
      Policy(0, 0, 0, 0, 100, 0, 0),
      Policy(1, 1, 1, DEFAULT_AVG_REL_MIN, DEFAULT_LOW_RATIO_MAX, 1, 1),
      Policy(2, 0, 1, DEFAULT_AVG_REL_MIN, 50, 2, 2) }

GateInit ==
    /\ pc = "gate_idle"
    /\ gate_in \in [documents : GateDocuments, stats : GateStats, policy : GatePolicies]
    /\ gate_out = NoGate
    /\ errors = [is_list |-> TRUE, items |-> <<>>]
    /\ wc = AbsentWC
    /\ cumulative_docs = <<>>
    /\ seen_urls = {}
    /\ attempt_no = 0
    /\ queries = <<>>
    /\ tavily_results = <<>>
    /\ analyzed_docs = <<>>
    /\ new_docs = <<>>
    /\ exc = "none"
    /\ calls = 0
    /\ errors_before = 0
    /\ search_calls = <<>>
    /\ web = NoWeb
    /\ all_results = <<>>
    /\ pipe = InitialPipe

GateCall ==
    /\ pc = "gate_idle"
    /\ \E order \in HashOrders :
         gate_out' = EvaluateGate(gate_in.documents, gate_in.stats, gate_in.policy, order)
    /\ pc' = "gate_done"
    /\ UNCHANGED <<gate_in, errors, wc, cumulative_docs, seen_urls, attempt_no, queries,
                   tavily_results, analyzed_docs, new_docs, exc, calls, errors_before,
                   search_calls, web, all_results>>
    /\ UNCHANGED pipe

\* a second evaluation on the same arguments
GateRecall ==
    /\ pc = "gate_done"
    /\ \E order \in HashOrders :
         gate_out' = EvaluateGate(gate_in.documents, gate_in.stats, gate_in.policy, order)
    /\ pc' = "gate_again"
    /\ UNCHANGED <<gate_in, errors, wc, cumulative_docs, seen_urls, attempt_no, queries,
                   tavily_results, analyzed_docs, new_docs, exc, calls, errors_before,
                   search_calls, web, all_results>>
    /\ UNCHANGED pipe

GateNext == GateCall \/ GateRecall

GateSpec == GateInit /\ [][GateNext]_vars

(***************************************************************************)
(* Two calls of execute on two state objects, through one agent, their     *)
(* steps interleaved.  Here every variable of a call is a function of the  *)
(* run; the locals of a call live in the frame LocalsOf(run); web[r] is    *)
(* the sequence of webs the dispatches of run r have seen.                 *)
(***************************************************************************)
Runs == {1, 2}

\* lines 98-99: cumulative_docs and seen_urls are locals, created by each call
LocalsOfAgent(run) == 1

LocalsOf(run) == run

ConcWebs ==
    { Web(1, 1, 3, FALSE, FALSE, "odd", "good"),
      Web(3, 3, 5, FALSE, TRUE, "none", "broken"),
      Web(1, 1, 2, FALSE, FALSE, "none", "aware"),
      Web(2, 2, 4, FALSE, FALSE, "none", "timed"),
      Web(ShallowMaxResults, DeepMaxResults, 5, FALSE, FALSE, "none", "strong") }

RunInput(w, tie, order) == [w |-> w, tie |-> tie, order |-> order]

DroppedLocals(st) ==
    [st EXCEPT !.attempt_no = 0, !.queries = <<>>, !.tavily_results = <<>>,
               !.analyzed_docs = <<>>, !.new_docs = <<>>]

\* one step of execute on the state st of a call, as a function of what the
\* collaborators answer during the step
RunStep(st, inp) ==
    CASE st.pc \in {"idle", "returned"} ->
           [DroppedLocals(st) EXCEPT
              !.errors = IF st.errors.is_list THEN st.errors
                         ELSE [is_list |-> TRUE, items |-> <<>>],
              !.wc = InitialWC,
              !.cumulative_docs = <<>>,
              !.seen_urls = {},
              !.exc = "none",
              !.pc = "loop"]
      [] st.pc = "loop" ->
           IF LoopTest(st.wc.attempts.current, st.wc.attempts.max)
           THEN [st EXCEPT
                   !.wc.attempts.current = NextAttempt(@),
                   !.attempt_no = NextAttempt(st.wc.attempts.current),
                   !.queries = BuildQueries(NextAttempt(st.wc.attempts.current),
                                            st.wc.gate.missing_slots),
                   !.pc = "search"]
           ELSE [DroppedLocals(st) EXCEPT !.pc = "returned"]
      [] st.pc = "search" ->
           LET r == RunTavilyQueries(inp.w, st.queries)
           IN  IF r.raised
               THEN [st EXCEPT !.exc = "not_iterable", !.pc = "except"]
               ELSE [st EXCEPT !.tavily_results = r.capped, !.pc = "analyze"]
      [] st.pc = "analyze" ->
           [st EXCEPT !.analyzed_docs = AnalyzeDocuments(st.tavily_results),
                      !.pc = "merge"]
      [] st.pc = "merge" ->
           LET r == Dedup(st.analyzed_docs, st.seen_urls)
           IN  [st EXCEPT !.new_docs = r.new_docs,
                          !.seen_urls = r.seen_urls,
                          !.cumulative_docs = Extend(@, r.new_docs),
                          !.pc = "assess"]
      [] st.pc = "assess" ->
           LET r == AssessReliability(st.cumulative_docs)
           IN  [st EXCEPT !.cumulative_docs = r.documents,
                          !.new_docs = NewDocsOf(r.documents, @),
                          !.exc = IF r.raised THEN "naive_aware" ELSE @,
                          !.pc = IF r.raised THEN "except" ELSE "gate"]
      [] st.pc = "gate" ->
           LET stats == CalculateStatistics(StatsInput(st.cumulative_docs, st.new_docs),
                                            inp.tie)
               verdict == EvaluateGate(st.cumulative_docs, stats, ThresholdProfile,
                                       inp.order)
           IN  [st EXCEPT
                  !.wc = [@ EXCEPT
                            !.documents = "cumulative",
                            !.count = Len(st.cumulative_docs),
                            !.sources = {st.cumulative_docs[i].source_category :
                                           i \in DOMAIN st.cumulative_docs},
                            !.stats = stats,
                            !.gate = verdict,
                            !.status = StatusOfVerdict(verdict.passed),
                            !.error = "none",
                            !.decision_log = Append(@,
                                [attempt |-> st.attempt_no,
                                 queries |-> st.queries,
                                 new_docs |-> Len(st.new_docs),
                                 total_docs |-> Len(st.cumulative_docs),
                                 gate_passed |-> verdict.passed,
                                 missing_slots |-> verdict.missing_slots,
                                 reasons |-> verdict.reasons])],
                  !.pc = "exit"]
      [] st.pc = "exit" ->
           LET d == ExitDecision(st.wc.gate.passed, st.attempt_no, st.wc.attempts.max)
               after == IF d = "exhausted" THEN [st EXCEPT !.wc.status = "partial"] ELSE st
           IN  IF d = "retry" THEN [after EXCEPT !.pc = "loop"]
               ELSE [DroppedLocals(after) EXCEPT !.pc = "returned"]
      [] st.pc = "except" ->
           [DroppedLocals(st) EXCEPT
              !.wc = [@ EXCEPT !.status = "degraded", !.error = st.exc],
              !.errors = [@ EXCEPT !.items = Append(@, ErrorEntry(st.exc))],
              !.pc = HandlerNext(st.exc),
              !.exc = "none"]
      [] OTHER -> st

\* the state of run r, its locals read in the frame that holds them
RunState(r) ==
    [pc |-> pc[r], errors |-> errors[r], wc |-> wc[r],
     cumulative_docs |-> cumulative_docs[LocalsOf(r)],
     seen_urls |-> seen_urls[LocalsOf(r)],
     attempt_no |-> attempt_no[r], queries |-> queries[r],
     tavily_results |-> tavily_results[r], analyzed_docs |-> analyzed_docs[r],
     new_docs |-> new_docs[r], exc |-> exc[r]]

InitialRunState ==
    [pc |-> "idle", errors |-> [is_list |-> TRUE, items |-> <<>>], wc |-> AbsentWC,
     cumulative_docs |-> <<>>, seen_urls |-> {}, attempt_no |-> 0, queries |-> <<>>,
     tavily_results |-> <<>>, analyzed_docs |-> <<>>, new_docs |-> <<>>, exc |-> "none"]

\* float ties and the set order of the interpreter are those of one process
ConcInput(w) == RunInput(w, "down", SortedSlots)

ConcInit ==
    /\ pc = [r \in Runs |-> InitialRunState.pc]
    /\ errors = [r \in Runs |-> InitialRunState.errors]
    /\ wc = [r \in Runs |-> InitialRunState.wc]
    /\ cumulative_docs = [r \in Runs |-> <<>>]
    /\ seen_urls = [r \in Runs |-> {}]
    /\ attempt_no = [r \in Runs |-> 0]
    /\ queries = [r \in Runs |-> <<>>]
    /\ tavily_results = [r \in Runs |-> <<>>]
    /\ analyzed_docs = [r \in Runs |-> <<>>]
    /\ new_docs = [r \in Runs |-> <<>>]
    /\ exc = [r \in Runs |-> "none"]
    /\ web = [r \in Runs |-> <<>>]
    /\ calls = 0
    /\ errors_before = 0
    /\ search_calls = <<>>
    /\ all_results = <<>>
    /\ gate_in = NoGateCall
    /\ gate_out = NoGate
    /\ pipe = InitialPipe

\* run r takes its next step
ConcStep(r) ==
    /\ pc[r] # "returned"
    /\ \E w \in IF pc[r] = "search" THEN ConcWebs ELSE {NoWeb} :
         \E st \in {RunStep(RunState(r), ConcInput(w))} :
             /\ pc' = [pc EXCEPT ![r] = st.pc]
             /\ errors' = [errors EXCEPT ![r] = st.errors]
             /\ wc' = [wc EXCEPT ![r] = st.wc]
             /\ cumulative_docs' = [cumulative_docs EXCEPT ![LocalsOf(r)] = st.cumulative_docs]
             /\ seen_urls' = [seen_urls EXCEPT ![LocalsOf(r)] = st.seen_urls]
             /\ attempt_no' = [attempt_no EXCEPT ![r] = st.attempt_no]
             /\ queries' = [queries EXCEPT ![r] = st.queries]
             /\ tavily_results' = [tavily_results EXCEPT ![r] = st.tavily_results]
             /\ analyzed_docs' = [analyzed_docs EXCEPT ![r] = st.analyzed_docs]
             /\ new_docs' = [new_docs EXCEPT ![r] = st.new_docs]
             /\ exc' = [exc EXCEPT ![r] = st.exc]
             /\ web' = [web EXCEPT ![r] = IF pc[r] = "search" THEN Append(@, w) ELSE @]
    /\ UNCHANGED <<calls, errors_before, search_calls, all_results, gate_in, gate_out>>
    /\ UNCHANGED pipe

ConcNext == \E r \in Runs : ConcStep(r)

ConcSpec == ConcInit /\ [][ConcNext]_vars

\* the same call executed alone, its dispatches seeing the webs ws in order
RECURSIVE SoloRun(_, _)
SoloRun(st, ws) ==
    IF st.pc = "returned" THEN st
    ELSE IF st.pc = "search" /\ ws = <<>> THEN st
    ELSE CHOOSE end \in
           { SoloRun(next, rest) :
               next \in {RunStep(st, ConcInput(IF st.pc = "search" THEN Head(ws)
                                                                   ELSE NoWeb))},
               rest \in {IF st.pc = "search" THEN Tail(ws) ELSE ws} } : TRUE

(***************************************************************************)
(* The pipeline graph (src/ethics_pipeline_graph.py): web_collection ->    *)
(* specialized_collection -> criteria_generation -> evaluation ->          *)
(* check_recollection, from which the conditional edge goes back to        *)
(* web_collection or on to report_generation.  pc is the node about to     *)
(* run, calls the number of times web_collection has been entered; a node  *)
(* is one step, the call of execute it makes included.                     *)
(***************************************************************************)
\* line 172 of _should_recollect
MaxRetries == 2

\* what the dispatches of one call of execute see
PipeWebRuns ==
    { << Web(0, 0, 1, FALSE, FALSE, "none", "good"),
         Web(ShallowMaxResults, DeepMaxResults, 5, FALSE, FALSE, "all", "good") >>,
      << Web(2, 2, 4, FALSE, FALSE, "none", "timed"),
         Web(ShallowMaxResults, DeepMaxResults, 5, FALSE, FALSE, "none", "strong") >> }

StageError(stage, e) ==
    [stage |-> stage, error |-> e, recovered |-> FALSE, impact_on_reliability |-> "high"]

PipeInit ==
    /\ pc = "web_collection"
    /\ errors = [is_list |-> TRUE, items |-> <<>>]
    /\ wc = AbsentWC
    /\ cumulative_docs = <<>>
    /\ seen_urls = {}
    /\ attempt_no = 0
    /\ queries = <<>>
    /\ tavily_results = <<>>
    /\ analyzed_docs = <<>>
    /\ new_docs = <<>>
    /\ exc = "none"
    /\ calls = 0
    /\ errors_before = 0
    /\ search_calls = <<>>
    /\ web = NoWeb
    /\ all_results = <<>>
    /\ gate_in = NoGateCall
    /\ gate_out = NoGate
    /\ pipe = InitialPipe

\* _web_collection_node: one whole call of execute on the pipeline state
WebCollectionNode ==
    /\ pc = "web_collection"
    /\ calls < MaxPipeEntries
    /\ \E ws \in PipeWebRuns :
         \E st \in {SoloRun([InitialRunState EXCEPT !.errors = errors, !.wc = wc,
                                                   !.cumulative_docs = cumulative_docs,
                                                   !.seen_urls = seen_urls], ws)} :
             /\ errors' = st.errors
             /\ wc' = st.wc
             /\ cumulative_docs' = st.cumulative_docs
             /\ seen_urls' = st.seen_urls
             /\ errors_before' = Len(errors.items)
    /\ calls' = calls + 1
    /\ pc' = "specialized_collection"
    /\ UNCHANGED <<attempt_no, queries, tavily_results, analyzed_docs, new_docs, exc,
                   search_calls, web, all_results, gate_in, gate_out, pipe>>

\* _specialized_collection_node: the collector finds documents, finds none,
\* or fails and records it
SpecializedCollectionNode ==
    /\ pc = "specialized_collection"
    /\ \E r \in {"some", "none", "raise"} :
         /\ pipe' = [pipe EXCEPT !.spec_docs = IF r = "some" THEN 1 ELSE 0]
         /\ errors' = IF r = "raise"
                      THEN [errors EXCEPT
                              !.items = Append(@, StageError("specialized_collection", r))]
                      ELSE errors
    /\ pc' = "criteria_generation"
    /\ UNCHANGED <<wc, cumulative_docs, seen_urls, attempt_no, queries, tavily_results,
                   analyzed_docs, new_docs, exc, calls, errors_before, search_calls, web,
                   all_results, gate_in, gate_out>>

\* _criteria_generation_node: the criteria are stored, or the failure is
\* recorded and ethics_evaluation_criteria stays as it was
CriteriaGenerationNode ==
    /\ pc = "criteria_generation"
    /\ \E ok \in BOOLEAN :
         /\ pipe' = [pipe EXCEPT !.criteria = IF ok THEN "ok" ELSE @]
         /\ errors' = IF ok THEN errors
                      ELSE [errors EXCEPT
                              !.items = Append(@, StageError("ethics_criteria_generation",
                                                             "raise"))]
    /\ pc' = "evaluation"
    /\ UNCHANGED <<wc, cumulative_docs, seen_urls, attempt_no, queries, tavily_results,
                   analyzed_docs, new_docs, exc, calls, errors_before, search_calls, web,
                   all_results, gate_in, gate_out>>

\* EthicsEvaluator.execute: what the call leaves in is_data_sufficient and
\* retry_collection.  outcome is what the evaluation of the documents
\* gives when it is reached.
EvaluatorExecute(p, n_docs, outcome) ==
    IF n_docs = 0 THEN [pipe |-> p, error |-> "no_documents"]
    ELSE CASE outcome = "needs_recollection" ->
                [pipe |-> [p EXCEPT !.is_data_sufficient = FALSE,
                                    !.retry_collection = @ + 1],
                 error |-> "none"]
           [] outcome = "sufficient" ->
                [pipe |-> [p EXCEPT !.is_data_sufficient = TRUE], error |-> "none"]
           [] OTHER -> [pipe |-> p, error |-> "raise"]

\* _evaluation_node; empty criteria make line 65 raise KeyError outside the
\* try block, which ends the run
EvaluationNode ==
    /\ pc = "evaluation"
    /\ IF pipe.criteria = "empty"
       THEN /\ pc' = "aborted"
            /\ UNCHANGED <<pipe, errors>>
       ELSE /\ \E outcome \in {"needs_recollection", "sufficient", "raise"} :
                 \E r \in {EvaluatorExecute(pipe, Len(WcDocuments) + pipe.spec_docs,
                                            outcome)} :
                     /\ pipe' = r.pipe
                     /\ errors' = IF r.error = "none" THEN errors
                                  ELSE [errors EXCEPT
                                          !.items = Append(@, StageError("ethics_evaluation",
                                                                         r.error))]
            /\ pc' = "check_recollection"
    /\ UNCHANGED <<wc, cumulative_docs, seen_urls, attempt_no, queries, tavily_results,
                   analyzed_docs, new_docs, exc, calls, errors_before, search_calls, web,
                   all_results, gate_in, gate_out>>

\* _should_recollect
ShouldRecollect(retry_count, is_data_sufficient) ==
    IF retry_count >= MaxRetries THEN "continue"
    ELSE IF is_data_sufficient THEN "continue"
    ELSE "recollect"

\* _check_recollection_node and the conditional edge that leaves it
CheckRecollectionNode ==
    /\ pc = "check_recollection"
    /\ pc' = IF ShouldRecollect(pipe.retry_collection, pipe.is_data_sufficient) = "recollect"
             THEN "web_collection" ELSE "report_generation"
    /\ UNCHANGED <<errors, wc, cumulative_docs, seen_urls, attempt_no, queries,
                   tavily_results, analyzed_docs, new_docs, exc, calls, errors_before,
                   search_calls, web, all_results, gate_in, gate_out, pipe>>

\* _report_generation_node, then END
ReportGenerationNode ==
    /\ pc = "report_generation"
    /\ pc' = "END"
    /\ UNCHANGED <<errors, wc, cumulative_docs, seen_urls, attempt_no, queries,
                   tavily_results, analyzed_docs, new_docs, exc, calls, errors_before,
                   search_calls, web, all_results, gate_in, gate_out, pipe>>

PipeNext ==
    \/ WebCollectionNode
    \/ SpecializedCollectionNode
    \/ CriteriaGenerationNode
    \/ EvaluationNode
    \/ CheckRecollectionNode
    \/ ReportGenerationNode

PipeSpec == PipeInit /\ [][PipeNext]_vars

(***************************************************************************)
(* _build_queries called on its own, for every attempt number up to        *)
(* MaxPlanAttempt and every stored list of missing slots.                  *)
(***************************************************************************)
PlanMissing == {SelectSeq(SortedSlots, LAMBDA x : x \in S) : S \in SUBSET Slots}

PlanInit ==
    /\ pc = "plan_idle"
    /\ \E a \in 1..MaxPlanAttempt, missing \in PlanMissing :
         wc = [InitialWC EXCEPT !.attempts.current = a, !.gate.missing_slots = missing]
    /\ queries = <<>>
    /\ errors = [is_list |-> TRUE, items |-> <<>>]
    /\ cumulative_docs = <<>>
    /\ seen_urls = {}
    /\ attempt_no = 0
    /\ tavily_results = <<>>
    /\ analyzed_docs = <<>>
    /\ new_docs = <<>>
    /\ exc = "none"
    /\ calls = 0
    /\ errors_before = 0
    /\ search_calls = <<>>
    /\ web = NoWeb
    /\ all_results = <<>>
    /\ gate_in = NoGateCall
    /\ gate_out = NoGate
    /\ pipe = InitialPipe

PlanCall ==
    /\ pc = "plan_idle"
    /\ queries' = BuildQueries(wc.attempts.current, wc.gate.missing_slots)
    /\ pc' = "plan_done"
    /\ UNCHANGED <<errors, wc, cumulative_docs, seen_urls, attempt_no, tavily_results,
                   analyzed_docs, new_docs, exc, calls, errors_before, search_calls,
                   web, all_results, gate_in, gate_out>>
    /\ UNCHANGED pipe

PlanNext == PlanCall

PlanSpec == PlanInit /\ [][PlanNext]_vars

(***************************************************************************)
(* _assess_reliability called on its own, on one freshly analyzed document *)
(* of every kind; new_docs keeps the document as it was before the call,   *)
(* and the call ends in "score_raised" when the exception escapes it.      *)
(***************************************************************************)
ScoreSourceTypes == {"primary", "secondary", "tertiary", "absent"}

ScoreCategories == {"company", "news", "blog", "academic", "absent"}

ScoreDates ==
    {NoDate, GarbageDate, DateAged(0 - 3), DateAged(0),
     DateAged(DEFAULT_RECENT_WINDOW_DAYS), DateAged(DEFAULT_RECENT_WINDOW_DAYS + 1),
     TimedDate(DEFAULT_RECENT_WINDOW_DAYS), AwareDate}

ScoreDocs ==
    {MakeDoc(Hit(Url("a.com", FALSE, 1, 0), ClsObj(st, cat, d)), ClsObj(st, cat, d)) :
       st \in ScoreSourceTypes, cat \in ScoreCategories, d \in ScoreDates}

ScoreInit ==
    /\ pc = "score_idle"
    /\ \E doc \in ScoreDocs : cumulative_docs = <<doc>> /\ new_docs = <<doc>>
    /\ errors = [is_list |-> TRUE, items |-> <<>>]
    /\ wc = AbsentWC
    /\ seen_urls = {}
    /\ attempt_no = 0
    /\ queries = <<>>
    /\ tavily_results = <<>>
    /\ analyzed_docs = <<>>
    /\ exc = "none"
    /\ calls = 0
    /\ errors_before = 0
    /\ search_calls = <<>>
    /\ web = NoWeb
    /\ all_results = <<>>
    /\ gate_in = NoGateCall
    /\ gate_out = NoGate
    /\ pipe = InitialPipe

ScoreCall ==
    /\ pc = "score_idle"
    /\ \E r \in {AssessReliability(cumulative_docs)} :
           /\ cumulative_docs' = r.documents
           /\ pc' = IF r.raised THEN "score_raised" ELSE "score_done"
    /\ UNCHANGED <<errors, wc, seen_urls, attempt_no, queries, tavily_results,
                   analyzed_docs, new_docs, exc, calls, errors_before, search_calls,
                   web, all_results, gate_in, gate_out>>
    /\ UNCHANGED pipe

ScoreNext == ScoreCall

ScoreSpec == ScoreInit /\ [][ScoreNext]_vars

(***************************************************************************)
(* Properties of the collection loop.                                      *)
(***************************************************************************)
Log == wc.decision_log

NormalizedUrls(docs) ==
    {[host |-> docs[i].url.host, path |-> docs[i].url.path] : i \in DOMAIN docs}

\* what is left of a call: the attempts not yet started, then the stages
\* of the current attempt
StagesLeft ==
    CASE pc = "search" -> 7
      [] pc = "analyze" -> 6
      [] pc = "merge" -> 5
      [] pc = "assess" -> 4
      [] pc = "gate" -> 3
      [] pc = "exit" -> 2
      [] pc = "except" -> 1
      [] OTHER -> 0

WorkLeft ==
    IF pc \in {"idle", "returned"} THEN 0
    ELSE 1 + 8 * (wc.attempts.max - wc.attempts.current) + StagesLeft

\* C1: every call of execute ends after at most max_attempts attempt cycles:
\* attempts.current starts at 0, grows by exactly 1 per cycle (at the loop
\* head only) and never exceeds attempts.max, and every step of a call
\* brings its return nearer (the work left, bounded by the attempt budget,
\* strictly decreases).
C1_AttemptsWithinBudget ==
    /\ [](wc.attempts.current \in 0..wc.attempts.max)
    /\ [][\/ wc'.attempts.current = wc.attempts.current
          \/ pc = "loop" /\ wc'.attempts.current = wc.attempts.current + 1
          \/ pc \in {"idle", "returned"} /\ pc' = "loop" /\ wc'.attempts.current = 0]_vars
    /\ [][calls' = calls => WorkLeft' < WorkLeft]_vars

C1_Witness ==
    pc = "returned" /\ wc.attempts.current = wc.attempts.max /\ Len(Log) = wc.attempts.max

\* C2: within one run the cumulative document list only grows: a step of
\* the run keeps every document already in it (same URL at the same place),
\* and the total recorded per attempt never decreases.
C2_CorpusOnlyGrows ==
    /\ [][calls' = calls =>
            /\ Len(cumulative_docs') >= Len(cumulative_docs)
            /\ \A i \in DOMAIN cumulative_docs :
                 cumulative_docs'[i].url = cumulative_docs[i].url]_vars
    /\ [](\A i \in 1..(Len(Log) - 1) : Log[i].total_docs <= Log[i + 1].total_docs)

C2_Witness ==
    Len(Log) = 2 /\ Log[1].total_docs > 0 /\ Log[2].new_docs > 0

\* C3: no two documents of the cumulative list have the same normalized URL
\* (host lower-cased, path; query dropped), across attempts too, and no
\* document of the list lacks a URL.
C3_UniqueNormalizedUrls ==
    /\ Cardinality(NormalizedUrls(cumulative_docs)) = Len(cumulative_docs)
    /\ \A i \in DOMAIN cumulative_docs : cumulative_docs[i].url # NoUrl

\* attempt 2 met a URL-less hit and a hit that differs from a document of
\* attempt 1 in spelling only
C3_Witness ==
    /\ pc = "assess"
    /\ attempt_no = 2
    /\ \E i \in DOMAIN analyzed_docs : analyzed_docs[i].url = NoUrl
    /\ \E i \in DOMAIN analyzed_docs : \E k \in 1..Log[1].total_docs :
         /\ analyzed_docs[i].url # cumulative_docs[k].url
         /\ analyzed_docs[i].url.host = cumulative_docs[k].url.host
         /\ analyzed_docs[i].url.path = cumulative_docs[k].url.path
    /\ Len(new_docs) > 0

\* C4: _evaluate_gate passes iff all seven predicates hold; missing_slots is
\* duplicate-free, within the five slots, holds a slot iff a predicate of
\* that slot fails, and there is one reason per failing predicate.
C4_GateVerdict ==
    pc = "gate_done" =>
      LET total == Len(gate_in.documents)
          st == gate_in.stats
          pol == gate_in.policy
          hosts == {gate_in.documents[i].url.host : i \in DOMAIN gate_in.documents} \ {""}
          cats == {k \in DOMAIN st.sources_breakdown : st.sources_breakdown[k].n > 0}
          holds == << total >= pol.min_docs,
                      st.primary_sources_count >= pol.min_primary,
                      st.recent_documents_count >= pol.min_recent,
                      st.average_reliability >= pol.avg_rel_min,
                      IF total = 0 THEN 100 <= pol.low_ratio_max
                      ELSE st.low_reliability_count * 100 <= pol.low_ratio_max * total,
                      Cardinality(hosts) >= pol.distinct_domains_min,
                      Cardinality(cats) >= pol.category_diversity_min >>
          slot == <<"docs_count", "primary", "recent", "reliability", "reliability",
                    "diversity", "diversity">>
          missing == gate_out.missing_slots
      IN  /\ gate_out.passed <=> \A k \in 1..7 : holds[k]
          /\ \A i, j \in DOMAIN missing : missing[i] = missing[j] => i = j
          /\ Range(missing) \subseteq
               {"docs_count", "primary", "recent", "reliability", "diversity"}
          /\ \A s \in {"docs_count", "primary", "recent", "reliability", "diversity"} :
               s \in Range(missing) <=> \E k \in 1..7 : slot[k] = s /\ ~holds[k]
          /\ Len(gate_out.reasons) = Cardinality({k \in 1..7 : ~holds[k]})

\* both predicates of one slot fail, and the slot is reported once
C4_Witness ==
    /\ pc = "gate_done"
    /\ gate_in.stats.average_reliability < gate_in.policy.avg_rel_min
    /\ Len(gate_in.documents) > 0
    /\ gate_in.stats.low_reliability_count * 100
         > gate_in.policy.low_ratio_max * Len(gate_in.documents)
    /\ gate_out.missing_slots = <<"reliability">>
    /\ Len(gate_out.reasons) = 2

\* C5: a passing verdict ends the run with status completed and no further
\* attempt is started after it; the final status is completed only if the
\* last recorded verdict passed.
C5_PassEndsRun ==
    /\ wc.gate.passed => pc \in {"exit", "returned"} /\ wc.attempts.current = Len(Log)
    /\ pc = "returned" /\ wc.gate.passed => wc.status = "completed"
    /\ pc = "returned" /\ wc.status = "completed" =>
         Len(Log) > 0 /\ Log[Len(Log)].gate_passed /\ wc.gate.passed
    /\ \A i \in 1..(Len(Log) - 1) : ~Log[i].gate_passed

C5_Witness ==
    /\ pc = "returned"
    /\ wc.status = "completed"
    /\ wc.attempts.current = 1
    /\ wc.attempts.current < wc.attempts.max

\* C6: a failing verdict on attempt number max_attempts, without exception,
\* ends the run with status partial, and the returned document list is the
\* whole cumulative list of all attempts.
C6_ExhaustedIsPartial ==
    (pc = "returned" /\ Len(Log) = wc.attempts.max /\ ~Log[Len(Log)].gate_passed
       /\ wc.error = "none")
      => /\ wc.status = "partial"
         /\ WcDocuments = cumulative_docs
         /\ Len(WcDocuments) = SumSeq([i \in DOMAIN Log |-> Log[i].new_docs])
         /\ Len(WcDocuments) = Log[Len(Log)].total_docs

C6_Witness ==
    /\ pc = "returned"
    /\ wc.status = "partial"
    /\ Len(Log) = 2
    /\ Log[1].new_docs > 0
    /\ Log[2].new_docs > 0
    /\ Len(WcDocuments) = Log[1].new_docs + Log[2].new_docs

\* C7: an exception that escapes a stage ends the run at once with status
\* degraded: the handler sets web_collection.error to the message, appends
\* exactly one error entry (stage web_collection, not recovered, impact
\* high) and returns; no further attempt is started, whatever is left of
\* the attempt budget.
C7_ExceptionEndsDegraded ==
    /\ [][pc = "except" =>
            /\ pc' = "returned"
            /\ wc'.status = "degraded"
            /\ wc'.error = exc
            /\ wc'.attempts = wc.attempts
            /\ errors'.items =
                 Append(errors.items,
                        [stage |-> "web_collection", error |-> exc, recovered |-> FALSE,
                         impact_on_reliability |-> "high"])]_vars
    /\ [](pc = "returned" /\ wc.status = "degraded" =>
            /\ wc.error # "none"
            /\ Len(errors.items) = errors_before + 1
            /\ Len(Log) = wc.attempts.current - 1)

C7_Witness ==
    /\ pc = "returned"
    /\ wc.status = "degraded"
    /\ wc.attempts.current < wc.attempts.max
    /\ errors_before = 1
    /\ Len(errors.items) = 2

\* C8: when a run ends degraded, the returned web_collection.documents
\* contains every document accepted into the cumulative list before the
\* exception, those of the failing attempt included.
C8_DegradedKeepsAcceptedDocs ==
    (pc = "returned" /\ wc.status = "degraded") =>
      {cumulative_docs[i].url : i \in DOMAIN cumulative_docs}
        \subseteq {WcDocuments[k].url : k \in DOMAIN WcDocuments}

\* C9: at return the status is completed, partial or degraded, never the
\* intermediate insufficient.
C9_StatusAtReturn ==
    pc = "returned" => wc.status \in {"completed", "partial", "degraded"}

\* returned after an attempt that had left the status insufficient
C9_Witness ==
    /\ pc = "returned"
    /\ Len(Log) = 2
    /\ ~Log[1].gate_passed
    /\ wc.status \in {"completed", "partial"}

\* C10: a failing verdict at attempt n < max_attempts starts attempt n+1,
\* whose plan holds the targeted queries of exactly the slots in the
\* missing_slots of attempt n's verdict.
C10_RetryPlanFromMissingSlots ==
    /\ [][pc = "exit" /\ ~wc.gate.passed /\ attempt_no < wc.attempts.max =>
            pc' = "loop" /\ wc' = wc]_vars
    /\ [][pc = "loop" /\ Len(Log) >= 1 =>
            /\ pc' = "search"
            /\ attempt_no' = Len(Log) + 1
            /\ wc.gate.missing_slots = Log[Len(Log)].missing_slots
            /\ {SlotOfQuery(queries'[i]) : i \in DOMAIN queries'} \ {"base"}
                 = Range(Log[Len(Log)].missing_slots)
            /\ \A s \in Range(Log[Len(Log)].missing_slots) :
                 Range(TargetedQueries(s)) \subseteq Range(queries')]_vars

C10_Witness ==
    /\ pc = "search"
    /\ attempt_no = 2
    /\ Log[1].missing_slots = <<"primary", "reliability">>
    /\ Len(queries) = 16

\* C11: on an empty cumulative corpus the gate takes the low-reliability
\* ratio to be 1.0 (no division), so the verdict fails, reports the ratio
\* as too high and has "reliability" among its missing slots.
C11_EmptyCorpusFailsReliability ==
    \A i \in DOMAIN Log :
      Log[i].total_docs = 0 =>
        /\ ~Log[i].gate_passed
        /\ "reliability" \in Range(Log[i].missing_slots)
        /\ "low_ratio_high" \in Range(Log[i].reasons)

\* the gate has run on an empty corpus and the call went on
C11_Witness ==
    /\ pc = "exit"
    /\ cumulative_docs = <<>>
    /\ Len(Log) = attempt_no
    /\ "reliability" \in Range(wc.gate.missing_slots)
    /\ wc.stats.low_reliability_count = 0

\* C12: _evaluate_gate is deterministic and free of side effects: a second
\* evaluation on the same documents, stats and profile returns the same
\* passed flag and the same missing_slots, in whatever order the
\* interpreter iterates the set of slots, and an evaluation leaves its
\* arguments as they were.
C12_GateDeterministic ==
    /\ [][pc = "gate_idle" => gate_in' = gate_in]_vars
    /\ [][pc = "gate_done" =>
            /\ gate_in' = gate_in
            /\ gate_out'.passed = gate_out.passed
            /\ gate_out'.missing_slots = gate_out.missing_slots]_vars

\* evaluated twice, with several slots to put in order
C12_Witness ==
    /\ pc = "gate_again"
    /\ Len(gate_out.missing_slots) >= 3
    /\ Len(gate_in.documents) > 0

\* C13: the reliability score of a document is 0.5, plus 0.2 for a primary
\* source, plus the category bonus (company +0.1, blog -0.1, others 0), plus
\* 0.1 when recent, clamped to [0,1]; the label and tier are high/tier1 iff
\* score >= 0.7, medium/tier2 iff 0.4 <= score < 0.7, low/tier3 iff
\* score < 0.4 (in hundredths).
C13_ScoreAndTier ==
    pc = "score_done" =>
      LET d == cumulative_docs[1]
          raw == 50 + (IF d.source_type = "primary" THEN 20 ELSE 0)
                    + (IF d.source_category = "company" THEN 10
                       ELSE IF d.source_category = "blog" THEN 0 - 10 ELSE 0)
                    + (IF d.is_recent THEN 10 ELSE 0)
          clamped == IF raw < 0 THEN 0 ELSE IF raw > 100 THEN 100 ELSE raw
          score == d.reliability_score
      IN  /\ score = clamped
          /\ score \in 0..100
          /\ d.source_type = new_docs[1].source_type
          /\ d.source_category = new_docs[1].source_category
          /\ (d.reliability = "high" /\ d.evidence_tier = "tier1") <=> score >= 70
          /\ (d.reliability = "medium" /\ d.evidence_tier = "tier2")
               <=> (score >= 40 /\ score < 70)
          /\ (d.reliability = "low" /\ d.evidence_tier = "tier3") <=> score < 40
          /\ d.reliability \in {"high", "medium", "low"}

\* a score on the boundary between low and medium
C13_Witness ==
    /\ pc = "score_done"
    /\ cumulative_docs[1].reliability_score = 40
    /\ cumulative_docs[1].reliability = "medium"
    /\ cumulative_docs[1].source_category = "blog"

\* C14: a classification failure for one hit (the call fails, or its answer
\* is unparseable text or JSON that is not an object) neither removes the
\* hit nor aborts the attempt: every hit of the dispatch becomes a document,
\* and a hit whose classification failed gets the defaults secondary, news
\* and no date.
C14_ClassificationFailureDefaults ==
    pc = "merge" =>
      /\ Len(analyzed_docs) = Len(tavily_results)
      /\ \A i \in DOMAIN tavily_results :
           tavily_results[i].cls.k \in {"raise", "text", "list"} =>
             /\ analyzed_docs[i].url = tavily_results[i].url
             /\ analyzed_docs[i].source_type = "secondary"
             /\ analyzed_docs[i].source_category = "news"
             /\ analyzed_docs[i].date = NoDate

\* C15: a call of the search capability that fails contributes no hit and
\* does not stop its pass: the next query of the pass is still issued, the
\* merged hits are exactly the hits of the calls that answered, and a
\* dispatch in which calls only fail or answer does not end in the handler.
C15_FailedQueryIsolated ==
    (pc = "analyze" \/ (pc = "except" /\ exc = "not_iterable")) =>
      LET n == Len(queries)
          ans(i) == TavilySearch(web, search_calls[i].query, search_calls[i].depth)
      IN  /\ all_results =
               Flatten([i \in DOMAIN search_calls |->
                          IF ans(i).k = "ok" THEN ans(i).hits ELSE <<>>])
          /\ \A i \in DOMAIN search_calls :
               ans(i).k = "raise" =>
                 /\ i < n =>
                      /\ i + 1 \in DOMAIN search_calls
                      /\ search_calls[i + 1] = [query |-> queries[i + 1], depth |-> "basic"]
                 /\ (i > n /\ i - n < 5 /\ i - n < n) =>
                      /\ i + 1 \in DOMAIN search_calls
                      /\ search_calls[i + 1] =
                           [query |-> queries[i + 1 - n], depth |-> "advanced"]
          /\ (\A i \in DOMAIN search_calls : ans(i).k # "noniter") => pc = "analyze"

\* some calls failed in both passes and the hits of the others were kept
C15_Witness ==
    /\ pc = "analyze"
    /\ web.fail = "odd"
    /\ Len(search_calls) = Len(queries) + 5
    /\ Len(all_results) > 0
    /\ Len(tavily_results) = Len(all_results)

\* C16: the output of a dispatch is the merged hit list (shallow hits in
\* query order, then deep hits) without the hits that come after 15 earlier
\* hits of the same lower-cased host, in the same order: no host occurs
\* more than DOMAIN_CAP_PER_HOST = 15 times, and nothing else is dropped.
C16_DomainCap ==
    pc = "analyze" =>
      LET host(i) == all_results[i].url.host
          keep == {i \in DOMAIN all_results :
                     Cardinality({j \in 1..(i - 1) : host(j) = host(i)}) < 15}
          rank(i) == Cardinality({j \in keep : j <= i})
      IN  /\ Len(tavily_results) = Cardinality(keep)
          /\ \A i \in keep : tavily_results[rank(i)] = all_results[i]
          /\ \A i \in DOMAIN tavily_results :
               Cardinality({j \in DOMAIN tavily_results :
                              tavily_results[j].url.host = tavily_results[i].url.host})
                 <= 15

\* hits were dropped for several hosts, and a hit behind a dropped one was kept
C16_Witness ==
    /\ pc = "analyze"
    /\ Len(tavily_results) < Len(all_results)
    /\ Cardinality({tavily_results[i].url.host : i \in DOMAIN tavily_results}) >= 3
    /\ \E i \in DOMAIN tavily_results :
         Cardinality({j \in DOMAIN tavily_results :
                        tavily_results[j].url.host = tavily_results[i].url.host}) = 15
    /\ \E i \in DOMAIN tavily_results :
         Cardinality({j \in DOMAIN tavily_results :
                        tavily_results[j].url.host = tavily_results[i].url.host}) < 15

\* C20: a dispatch that returns has issued every planned query once in
\* shallow mode, in plan order, before any deep call; it ran the deep pass
\* iff the shallow pass collected fewer than 100 raw hits, and then on the
\* first min(5, number of queries) queries only, once each: at most
\* len(queries) + 5 calls in all.
C20_DispatchCalls ==
    pc = "analyze" =>
      LET n == Len(queries)
          shallow_hits ==
              SumSeq([i \in 1..n |->
                        LET a == TavilySearch(web, queries[i], "basic")
                        IN  IF a.k = "ok" THEN Len(a.hits) ELSE 0])
          k == IF n < 5 THEN n ELSE 5
      IN  /\ Len(search_calls) = n + (IF shallow_hits < 100 THEN k ELSE 0)
          /\ Len(search_calls) <= n + 5
          /\ \A i \in 1..n : search_calls[i] = [query |-> queries[i], depth |-> "basic"]
          /\ \A i \in 1..(Len(search_calls) - n) :
               search_calls[n + i] = [query |-> queries[i], depth |-> "advanced"]
          /\ \A i, j \in 1..n : queries[i] = queries[j] => i = j

\* exactly 100 shallow hits: the deep pass was skipped
C20_Witness ==
    /\ pc = "analyze"
    /\ Len(queries) = 21
    /\ Len(search_calls) = 21
    /\ Len(all_results) = 100

\* C19: _build_queries returns exactly the 10 baseline queries on attempt 1
\* whatever missing_slots holds; on a later attempt with missing slots it
\* returns the 10 baseline queries in the same order, then the targeted
\* queries of the missing slots in the order primary (3), recent (2),
\* docs_count (3), reliability (3), diversity (3): 10 plus the contributions
\* of the missing slots, never more than 24.
C19_QueryPlan ==
    pc = "plan_done" =>
      LET a == wc.attempts.current
          missing == {wc.gate.missing_slots[i] : i \in DOMAIN wc.gate.missing_slots}
          base == <<1, 2, 3, 4, 5, 6, 7, 8, 9, 10>>
          tail == (IF "primary" \in missing THEN <<11, 12, 13>> ELSE <<>>)
                    \o (IF "recent" \in missing THEN <<14, 15>> ELSE <<>>)
                    \o (IF "docs_count" \in missing THEN <<16, 17, 18>> ELSE <<>>)
                    \o (IF "reliability" \in missing THEN <<19, 20, 21>> ELSE <<>>)
                    \o (IF "diversity" \in missing THEN <<22, 23, 24>> ELSE <<>>)
          contribution == 3 * Cardinality(missing \ {"recent"})
                            + 2 * Cardinality(missing \cap {"recent"})
      IN  /\ a = 1 => queries = base
          /\ (a >= 2 /\ missing # {}) =>
               /\ queries = base \o tail
               /\ Len(queries) = 10 + contribution
          /\ Len(queries) <= 24
          /\ SubSeq(queries, 1, 10) = base

\* a later attempt with two missing slots, planned in the planner's order
C19_Witness ==
    /\ pc = "plan_done"
    /\ wc.attempts.current = 3
    /\ wc.gate.missing_slots = <<"docs_count", "recent">>
    /\ queries = <<1, 2, 3, 4, 5, 6, 7, 8, 9, 10, 14, 15, 16, 17, 18>>

\* C17 (as claimed): quality only improves or plateaus across the attempts of
\* a run: the missing slots after attempt n+1 are among the missing slots
\* after attempt n.
C17_QualityNeverRegresses ==
    \A i \in 1..(Len(Log) - 1) :
      Range(Log[i + 1].missing_slots) \subseteq Range(Log[i].missing_slots)

\* C17 (amended): the slots decided by the accumulated set of documents
\* alone, docs_count, primary and diversity, never regress: such a slot that
\* is not missing after attempt n is not missing after attempt n+1.
C17_GrowingSlotsNeverRegress ==
    \A i \in 1..(Len(Log) - 1) :
      \A slot \in {"docs_count", "primary", "diversity"} :
        slot \notin Range(Log[i].missing_slots) =>
          slot \notin Range(Log[i + 1].missing_slots)

\* the second attempt added documents and lost the recent slot, while the
\* primary and diversity slots stayed satisfied
C17_Witness ==
    /\ Len(Log) = 2
    /\ Log[2].new_docs > 0
    /\ Range(Log[1].missing_slots) \cap {"primary", "diversity", "recent"} = {}
    /\ "recent" \in Range(Log[2].missing_slots)
    /\ "primary" \notin Range(Log[2].missing_slots)

\* C21: after scoring every document has age_days >= 0; a document whose
\* date is missing or unparseable has age_days = 9999, is_recent = false and
\* no date, and its score has no recency bonus; a document with a parseable
\* date is recent iff its age in days is at most 180.
C21_AgeAndRecency ==
    pc = "score_done" =>
      LET d == cumulative_docs[1]
          before == new_docs[1].date
          no_bonus == 50 + (IF d.source_type = "primary" THEN 20 ELSE 0)
                         + (IF d.source_category = "company" THEN 10
                            ELSE IF d.source_category = "blog" THEN 0 - 10 ELSE 0)
      IN  /\ d.age_days >= 0
          /\ before.k \in {"none", "garbage"} =>
               /\ d.age_days = 9999
               /\ d.is_recent = FALSE
               /\ d.date = NoDate
               /\ d.reliability_score = no_bonus
          /\ before.k \in {"ok", "timed"} =>
               /\ d.is_recent <=> before.age <= 180
               /\ d.age_days = (IF before.age < 0 THEN 0 ELSE before.age)
               /\ d.age_days # 9999
               /\ d.date # NoDate

\* an unparseable date on a primary company page: scored 0.8, not 0.9
C21_Witness ==
    /\ pc = "score_done"
    /\ new_docs[1].date = GarbageDate
    /\ cumulative_docs[1].age_days = 9999
    /\ cumulative_docs[1].source_type = "primary"
    /\ cumulative_docs[1].source_category = "company"
    /\ cumulative_docs[1].reliability_score = 80

\* C22: after every completed attempt the stored aggregates are those of
\* the whole cumulative set: primary + secondary = high + medium + low =
\* sum of the sources_breakdown counts = count = number of cumulative
\* documents, recent_documents_count is the number of documents with
\* is_recent true, and every aggregate is 0 for an empty set.
C22_AggregatesOfCumulativeSet ==
    pc = "exit" =>
      LET st == wc.stats
          n == Len(cumulative_docs)
      IN  /\ st.primary_sources_count + st.secondary_sources_count = n
          /\ st.high_reliability_count + st.medium_reliability_count
               + st.low_reliability_count = n
          /\ SumSeq([k \in DOMAIN st.sources_breakdown |-> st.sources_breakdown[k].n]) = n
          /\ wc.count = n
          /\ st.recent_documents_count =
               Cardinality({i \in DOMAIN cumulative_docs : cumulative_docs[i].is_recent})
          /\ st.primary_sources_count =
               Cardinality({i \in DOMAIN cumulative_docs :
                              cumulative_docs[i].source_type = "primary"})
          /\ n = 0 =>
               /\ st.sources_breakdown = <<>>
               /\ st.primary_sources_count = 0
               /\ st.secondary_sources_count = 0
               /\ st.recent_documents_count = 0
               /\ st.high_reliability_count = 0
               /\ st.medium_reliability_count = 0
               /\ st.low_reliability_count = 0
               /\ st.average_reliability = 0
               /\ st.newest_date = NoDate
               /\ st.oldest_date = NoDate

\* the second attempt added documents to those of the first
C22_Witness ==
    /\ pc = "exit"
    /\ attempt_no = 2
    /\ Len(new_docs) > 0
    /\ Len(new_docs) < Len(cumulative_docs)
    /\ wc.stats.recent_documents_count > 0
    /\ wc.stats.primary_sources_count + wc.stats.secondary_sources_count
         = Len(cumulative_docs)

\* C23: within an attempt the classification capability is invoked only for
\* accepted hits, those that carry a URL and whose normalized URL is not yet
\* in the run's seen-set: no classification call is made for a hit that is
\* later discarded as a duplicate or as URL-less.
C23_ClassifyOnlyAcceptedHits ==
    pc = "merge" =>
      LET cls_calls == ClassifyCalls(tavily_results)
      IN  \A i \in DOMAIN cls_calls :
            /\ cls_calls[i].url # NoUrl
            /\ NormalizeUrl(cls_calls[i].url) \notin seen_urls
            /\ \A k \in 1..(i - 1) :
                 NormalizeUrl(cls_calls[k].url) # NormalizeUrl(cls_calls[i].url)

\* C24: the gate's average-reliability predicate compares the exact
\* arithmetic mean of the documents' scores with avg_rel_min: on a non-empty
\* corpus whose mean is not an exact tie between two hundredths,
\* "reliability" is flagged by predicate 4 iff sum(scores) < avg_rel_min *
\* count (scores in hundredths), so a mean just below the threshold fails.
C24_ExactMeanAgainstThreshold ==
    (pc = "exit" /\ Len(cumulative_docs) > 0) =>
      LET n == Len(cumulative_docs)
          total == SumSeq([i \in DOMAIN cumulative_docs |->
                             cumulative_docs[i].reliability_score])
      IN  2 * (total % n) # n =>
            (("avg_reliability_low" \in Range(wc.gate.reasons))
               <=> (total < DEFAULT_AVG_REL_MIN * n))

\* C25: inside the collection loop the planner is never called with
\* attempt >= 2 and an empty missing_slots: whenever the loop head starts an
\* attempt after the first, the stored verdict has passed = false and a
\* non-empty missing_slots, and the plan holds more than the baseline.
C25_DegenerateBranchUnreachable ==
    /\ [](pc = "loop" /\ wc.attempts.current >= 1 =>
            /\ wc.gate.passed = FALSE
            /\ wc.gate.missing_slots # <<>>)
    /\ [][pc = "loop" /\ pc' = "search" /\ wc'.attempts.current >= 2 =>
            /\ wc'.gate.passed = FALSE
            /\ wc'.gate.missing_slots # <<>>
            /\ Len(queries') > Len(BaseQueries)]_vars

\* the planner has been called for a second attempt
C25_Witness ==
    /\ pc = "search"
    /\ attempt_no = 2
    /\ wc.attempts.current = 2
    /\ wc.gate.missing_slots # <<>>
    /\ Len(queries) > 10

\* C26: the re-collection loop of the pipeline is bounded by max_retries =
\* 2: in every pipeline run the web_collection node is entered at most 3
\* times, whatever the evaluation node does, its early returns and its
\* exception path included.
C26_RecollectionBounded == calls <= 1 + MaxRetries

\* C27: no document scored by the engine is ever labelled low / tier3: the
\* scores lie between 0.4 and 0.9, so low_reliability_count is 0 after
\* every attempt and the low-reliability-ratio predicate of the gate fails
\* only on an empty cumulative corpus.
C27_NoLowReliability ==
    /\ pc \in {"gate", "exit"} =>
         \A i \in DOMAIN cumulative_docs :
           /\ cumulative_docs[i].reliability \in {"high", "medium"}
           /\ cumulative_docs[i].evidence_tier \in {"tier1", "tier2"}
           /\ cumulative_docs[i].reliability_score >= 40
           /\ cumulative_docs[i].reliability_score <= 90
    /\ \A i \in DOMAIN Log :
         "low_ratio_high" \in Range(Log[i].reasons) => Log[i].total_docs = 0
    /\ pc = "exit" =>
         /\ wc.stats.low_reliability_count = 0
         /\ "low_ratio_high" \in Range(wc.gate.reasons) <=> cumulative_docs = <<>>

\* the corpus holds a document of the lowest and one of the highest score
C27_Witness ==
    /\ pc = "exit"
    /\ \E i \in DOMAIN cumulative_docs : cumulative_docs[i].reliability_score = 40
    /\ \E i \in DOMAIN cumulative_docs : cumulative_docs[i].reliability_score = 90
    /\ wc.stats.low_reliability_count = 0
    /\ "low_ratio_high" \notin Range(wc.gate.reasons)

\* C28: at every return of execute, whatever the final status and whichever
\* stage raised, web_collection.count is the length of
\* web_collection.documents and the stored aggregates describe exactly that
\* list.
C28_ResultConsistentAtReturn ==
    pc = "returned" =>
      /\ wc.count = Len(WcDocuments)
      /\ wc.stats.primary_sources_count + wc.stats.secondary_sources_count
           = Len(WcDocuments)
      /\ wc.stats.recent_documents_count =
           Cardinality({i \in DOMAIN WcDocuments : WcDocuments[i].is_recent})
      /\ wc.stats.high_reliability_count =
           Cardinality({i \in DOMAIN WcDocuments : WcDocuments[i].reliability = "high"})
      /\ wc.sources = {WcDocuments[i].source_category : i \in DOMAIN WcDocuments}

\* C29: the decision log holds one entry per attempt that ran to its gate
\* verdict, numbered 1, 2, ... in order: at return its length is
\* attempts.current when the run ends completed or partial and
\* attempts.current - 1 when it ends degraded; in every entry total_docs is
\* the previous entry's total_docs (0 for the first) plus new_docs, and only
\* the last entry can have passed.
C29_DecisionLog ==
    /\ \A i \in DOMAIN Log :
         /\ Log[i].attempt = i
         /\ Log[i].total_docs = (IF i = 1 THEN 0 ELSE Log[i - 1].total_docs) + Log[i].new_docs
         /\ Log[i].gate_passed => i = Len(Log)
    /\ Len(Log) <= wc.attempts.current
    /\ pc = "returned" /\ wc.status \in {"completed", "partial"} =>
         Len(Log) = wc.attempts.current
    /\ pc = "returned" /\ wc.status = "degraded" =>
         Len(Log) = wc.attempts.current - 1

\* a run that passed the gate at its second attempt, with new documents
C29_Witness ==
    /\ pc = "returned"
    /\ wc.status = "completed"
    /\ Len(Log) = 2
    /\ Log[1].total_docs > 0
    /\ Log[2].new_docs > 0
    /\ Log[2].gate_passed

\* C30: each call of execute starts a fresh run on the given state: it
\* replaces web_collection (no documents, attempts.current 0, empty decision
\* log) and starts from an empty seen-URL set, so nothing of an earlier call
\* on the same state is carried over; it leaves every other key of the
\* state unchanged except errors, whose entries are kept when it is a list
\* and which grows by at most one entry per call.
C30_FreshRunPerCall ==
    /\ [][pc' = "loop" /\ pc \in {"idle", "returned"} =>
            /\ wc'.documents = "fresh"
            /\ WcDocuments' = <<>>
            /\ wc'.count = 0
            /\ wc'.attempts.current = 0
            /\ wc'.decision_log = <<>>
            /\ wc'.status = "insufficient"
            /\ wc'.gate.passed = FALSE
            /\ wc'.stats = EmptyStats
            /\ seen_urls' = {}
            /\ cumulative_docs' = <<>>
            /\ errors'.items = IF errors.is_list THEN errors.items ELSE <<>>
            /\ errors'.is_list]_vars
    /\ [][/\ pipe' = pipe
          /\ errors.is_list =>
               /\ errors'.is_list
               /\ Len(errors'.items) >= Len(errors.items)
               /\ SubSeq(errors'.items, 1, Len(errors.items)) = errors.items]_vars
    /\ [](calls >= 1 =>
            /\ Len(errors.items) \in {errors_before, errors_before + 1}
            /\ pc = "returned" =>
                 (Len(errors.items) = errors_before + 1 <=> wc.status = "degraded"))

\* a second call on a state whose first call had accepted documents and
\* ended degraded while scoring them: it has collected documents of its own
\* and kept the error entry of the first
C30_Witness ==
    /\ pc = "returned"
    /\ calls = 2
    /\ errors_before >= 1
    /\ errors.items[errors_before].stage = "web_collection"
    /\ errors.items[errors_before].error = "naive_aware"
    /\ Len(errors.items) = errors_before
    /\ Len(WcDocuments) > 0
    /\ Log[1].new_docs = Len(WcDocuments)
    /\ wc.attempts.current = 1

\* what a caller sees of a returned run: its web_collection with the
\* documents read through the reference, and its errors
ResultOf(st) ==
    [wc |-> st.wc,
     documents |-> IF st.wc.documents = "cumulative" THEN st.cumulative_docs ELSE <<>>,
     seen_urls |-> st.seen_urls,
     errors |-> st.errors]

\* C18: two runs of execute on distinct state objects, interleaved step by
\* step through one agent, do not interfere: a step of one run leaves the
\* state of the other as it was, and the documents, seen URLs, attempt
\* counter, verdict and decision log a run returns are those of the same
\* run executed alone against the same answers of the collaborators.
C18_RunsDoNotInterfere ==
    /\ [][\A r \in Runs : pc'[r] = pc[r] => RunState(r)' = RunState(r)]_vars
    /\ [](\A r \in Runs :
            pc[r] = "returned" =>
              ResultOf(RunState(r)) = ResultOf(SoloRun(InitialRunState, web[r])))

\* both runs returned, having collected overlapping pages
C18_Witness ==
    /\ pc[1] = "returned"
    /\ pc[2] = "returned"
    /\ Len(cumulative_docs[1]) > 0
    /\ seen_urls[1] \cap seen_urls[2] # {}
    /\ wc[1].status # wc[2].status
    /\ Len(wc[1].decision_log) = 2

====
